---- MODULE Spec2Model ----
(***************************************************************************)
(* Attribution and aggregation engine of the Infobae editorial dashboard   *)
(* (streamlit_app.py).  The editorial event table and the traffic tables   *)
(* are the state the program reads; every load_* function is one action    *)
(* that evaluates its SQL over those tables and stores what it returns.    *)
(***************************************************************************)
EXTENDS Integers, FiniteSets, Sequences, TLC

VARIABLES
    log,      \* rows of TABLE_EDITORIAL (arc_editorial_activity)
    gold,     \* rows of TABLE_PRODUCTIVITY (GA4_ARC_author_productivity_daily)
    silver,   \* rows of TABLE_PRODUCTIVITY_SILVER (GA4_productivity_cleaned)
    pc,       \* position of the script run inside main()
    req,      \* the arguments main() passes to every load_* call of the run
    ret,      \* what the latest load_* call returned
    scopes,   \* the user's notes each scoped query of the run resolved
    down,     \* the queries the store currently answers with an exception
    cache     \* st.cache_data: the value each memoized call stored, and its age

vars == <<log, gold, silver, pc, req, ret, scopes, down, cache>>

(***************************************************************************)
(* Bounds of the model.                                                    *)
(***************************************************************************)
MaxLog == 3        \* rows the editorial table may hold
MaxDown == 1       \* queries the store may fail at the same time

(***************************************************************************)
(* Values.                                                                 *)
(***************************************************************************)
NULL == "<NULL>"                      \* SQL NULL / Python None for strings
NullNum == [isnull |-> TRUE]          \* SQL NULL for numbers
Num(n) == [isnull |-> FALSE, v |-> n]

Notes == {1, 2}
Days == {1, 2}
Ticks == {1}
Url(n) == IF n = 1 THEN "/a/1" ELSE "/a/2"
Urls == {Url(n) : n \in Notes}

\* event_timestamp is a TIMESTAMP: a calendar day and a time within the day
Timestamps == [day : Days, tick : Ticks]
TsLess(a, b) == a.day < b.day \/ (a.day = b.day /\ a.tick < b.tick)
TsLeq(a, b) == a = b \/ TsLess(a, b)
\* DATE(event_timestamp)
DateOf(ts) == ts.day
\* DATE(x) BETWEEN start AND end
Between(d, start, end) == start <= d /\ d <= end

(***************************************************************************)
(* The store.  _client.query(q).to_dataframe() raises when the store fails *)
(* the query; every query of a load_* function sits in a try block whose   *)
(* except clause leaves the default the function set before the query.     *)
(***************************************************************************)
\* try: value = _client.query(name).to_dataframe() ...  except: keep default
Try(name, value, default) == IF name \in down THEN default ELSE value
\* except Exception as e: st.error(message)
st_error(name, message) == IF name \in down THEN {message} ELSE {}
\* load_top_publishers running its query outside the try block
Unguarded_top_publishers == {"top_publishers.query"}
\* the queries a load_* function runs outside any try block
Unguarded == {}
\* the exception of a failed query leaves the function that ran it
Raises(names) == names \cap down \cap Unguarded # {}
\* pd.DataFrame()
EmptyDataFrame == <<>>

\* LOWER() / UPPER() over the strings that occur in the tables
Lower(s) ==
    CASE s = "Infobae" -> "infobae"
      [] s = "Carol@x" -> "carol@x"
      [] s = "AR" -> "ar"
      [] s = "MX" -> "mx"
      [] s = "ComposerCMS" -> "composercms"
      [] OTHER -> s
Upper(s) ==
    CASE s = "ar" -> "AR"
      [] s = "mx" -> "MX"
      [] OTHER -> s

\* TABLE_AUTHORS (authors_infobae_raw): reference data, read only
Authors ==
    { [email |-> "alice@x", country |-> "AR", complete_name |-> "Alice"],
      [email |-> "bob@x",   country |-> "mx", complete_name |-> "Bob"],
      [email |-> "carol@x", country |-> "AR", complete_name |-> "Carol"] }

RECURSIVE SumF(_, _)
SumF(f, S) ==
    IF S = {} THEN 0
    ELSE LET x == CHOOSE y \in S : TRUE IN f[x] + SumF(f, S \ {x})

\* SQL SUM(): NULL over no rows
SqlSum(f, S) == IF S = {} THEN NullNum ELSE Num(SumF(f, S))
\* SAFE_DIVIDE(a, b): NULL when an operand is NULL or the divisor is 0;
\* a quotient is kept as the pair numerator / denominator
SafeDivide(a, b) ==
    IF a.isnull \/ b.isnull THEN NullNum
    ELSE IF b.v = 0 THEN NullNum
    ELSE [isnull |-> FALSE, num |-> a.v, den |-> b.v]
\* int(x) if pd.notna(x) else 0
IntOrZero(x) == IF x.isnull THEN 0 ELSE x.v
\* float(x) if pd.notna(x) else 0, as a quotient
FloatOrZero(x) == IF x.isnull THEN [num |-> 0, den |-> 1] ELSE [num |-> x.num, den |-> x.den]

Max(a, b) == IF a >= b THEN a ELSE b

(***************************************************************************)
(* The CTEs that resolve the notes "of the user".                          *)
(***************************************************************************)
\* rows of one action type dated in the window
EventsIn(events, action, start, end) ==
    {e \in events : e.action_type = action /\ Between(DateOf(e.event_timestamp), start, end)}

\* ROW_NUMBER() OVER (PARTITION BY note_id ORDER BY event_timestamp) = 1:
\* the rows of a partition that may be numbered 1 are those with the least
\* timestamp; which of several tied rows gets number 1 is not determined.
FirstCandidates(rows, n) ==
    {r \in rows : r.note_id = n /\ \A o \in rows : o.note_id = n => TsLeq(r.event_timestamp, o.event_timestamp)}
\* every numbering a query may produce: one rn = 1 row per partition
Rankings(rows) ==
    LET parts == {r.note_id : r \in rows}
    IN {f \in [parts -> rows] : \A n \in parts : f[n] \in FirstCandidates(rows, n)}
RankOne(rk) == {rk[n] : n \in DOMAIN rk}

\* notas_con_create: notes with a CREATE row anywhere in the table
notas_con_create(events) == {e.note_id : e \in {x \in events : x.action_type = "CREATE"}}

\* the rows a tier reads: of one action, in the window, optionally only
\* those with a story_url
TierRows(events, action, start, end, url_not_null) ==
    {e \in EventsIn(events, action, start, end) : url_not_null => e.story_url # NULL}

\* projection SELECT note_id [, story_url]
Proj(e, with_url) == [note_id |-> e.note_id, story_url |-> IF with_url THEN e.story_url ELSE NULL]

notas_create(events, email, start, end, with_url, url_not_null) ==
    {Proj(e, with_url) : e \in {x \in TierRows(events, "CREATE", start, end, url_not_null) : x.email_editor = email}}
notas_publish(events, email, start, end, with_url, url_not_null) ==
    {Proj(e, with_url) : e \in {x \in TierRows(events, "FIRST_PUBLISH", start, end, url_not_null) : x.email_editor = email}}
\* primer_save that forgets the window: every SAVE row of the table is ranked
primer_save_whole_table(events, start, end, url_not_null) ==
    {e \in events : e.action_type = "SAVE" /\ (url_not_null => e.story_url # NULL)}
\* primer_save: the SAVE rows the window function ranks
primer_save(events, start, end, url_not_null) == TierRows(events, "SAVE", start, end, url_not_null)
\* notas_primer_save that forgets NOT IN (SELECT note_id FROM notas_con_create)
notas_primer_save_without_not_in(events, email, with_url, rk) ==
    {Proj(e, with_url) : e \in {x \in RankOne(rk) : x.email_editor = email}}
\* notas_primer_save: rn = 1, saved by the user, note without CREATE anywhere
notas_primer_save(events, email, with_url, rk) ==
    LET con_create == notas_con_create(events)
    IN {Proj(e, with_url) : e \in {x \in RankOne(rk) : x.email_editor = email /\ x.note_id \notin con_create}}
\* todas_notas_usuario: UNION DISTINCT of the three tiers
todas_notas_usuario(events, email, start, end, with_url, url_not_null, rk) ==
    notas_create(events, email, start, end, with_url, url_not_null)
        \cup notas_publish(events, email, start, end, with_url, url_not_null)
        \cup notas_primer_save(events, email, with_url, rk)
\* notas_publicadas_periodo: notes with a FIRST_PUBLISH dated in the window
notas_publicadas_periodo(events, start, end) ==
    {e.note_id : e \in EventsIn(events, "FIRST_PUBLISH", start, end)}
\* get_user_notes_cte(email, start, end, include_urls)
get_user_notes_cte(events, email, start, end, include_urls, rk) ==
    [todas_notas_usuario |-> todas_notas_usuario(events, email, start, end, include_urls, include_urls, rk),
     notas_publicadas_periodo |-> notas_publicadas_periodo(events, start, end)]

NoteIds(rows) == {r.note_id : r \in rows}

(***************************************************************************)
(* Filters shared by the queries.                                          *)
(***************************************************************************)
\* seccion_clause: AND e.segment = '<seccion_filter>' when the filter is set
SeccionOk(e, seccion) == seccion = NULL \/ e.segment = seccion
\* join_clause + pais_clause: LEFT JOIN authors ON LOWER(email) = LOWER(a.email)
\* AND UPPER(a.country) = UPPER('<pais_filter>') when the filter is set
PaisOk(email, pais) ==
    pais = NULL \/ \E a \in Authors : Lower(email) = Lower(a.email) /\ Upper(a.country) = Upper(pais)
\* COUNT(DISTINCT col): NULLs are not counted
CountDistinct(values) == Cardinality(values \ {NULL})

(***************************************************************************)
(* load_production_metrics                                                 *)
(***************************************************************************)
\* creadores_create: every CREATE row of the table, (note_id, creador_email)
creadores_create(events) ==
    {[note_id |-> e.note_id, creador_email |-> e.email_editor] : e \in {x \in events : x.action_type = "CREATE"}}
\* primer_save_all: every SAVE row of the table, ranked per note
primer_save_all(events) == {e \in events : e.action_type = "SAVE"}
\* creadores_primer_save: rn = 1 of primer_save_all for notes without CREATE
creadores_primer_save(events, rk_all) ==
    LET con_create == NoteIds(creadores_create(events))
    IN {[note_id |-> e.note_id, creador_email |-> e.email_editor] :
            e \in {x \in RankOne(rk_all) : x.note_id \notin con_create}}
\* creadores_reales: creadores_create UNION ALL creadores_primer_save
creadores_reales(events, rk_all) == creadores_create(events) \cup creadores_primer_save(events, rk_all)

\* query_counts, with a person filter: the scope it resolves
prod_counts_scope(events, r, rk) ==
    NoteIds(todas_notas_usuario(events, r.email, r.start, r.end, FALSE, FALSE, rk))
\* publicadores_notas: SELECT DISTINCT email_editor of the FIRST_PUBLISH rows
\* in the window of the user's notes
publicadores_notas(events, r, rk) ==
    LET scope == prod_counts_scope(events, r, rk)
    IN {e.email_editor : e \in {x \in EventsIn(events, "FIRST_PUBLISH", r.start, r.end) : x.note_id \in scope}}
\* creadores_notas: SELECT DISTINCT creador_email of the user's notes
creadores_notas(events, r, rk, rk_all) ==
    LET scope == prod_counts_scope(events, r, rk)
    IN {c.creador_email : c \in {x \in creadores_reales(events, rk_all) : x.note_id \in scope}}

\* query_notas, with a person filter: the scope it resolves and the notes it counts
prod_notas_scope(events, r, rk) ==
    NoteIds(todas_notas_usuario(events, r.email, r.start, r.end, FALSE, FALSE, rk))
\* todas_notas_usuario JOIN notas_publicadas JOIN every FIRST_PUBLISH row of the
\* note (of any date), filtered by the section and country clauses
prod_notas_counted(events, r, rk) ==
    {n \in prod_notas_scope(events, r, rk) \cap notas_publicadas_periodo(events, r.start, r.end) :
        \E e \in events : /\ e.note_id = n
                          /\ e.action_type = "FIRST_PUBLISH"
                          /\ SeccionOk(e, r.seccion)
                          /\ PaisOk(e.email_editor, r.pais)}

\* the three queries without a person filter
UnfilteredRows(events, action, r) ==
    {e \in EventsIn(events, action, r.start, r.end) :
        SeccionOk(e, r.seccion) /\ PaisOk(e.email_editor, r.pais)}
\* query_creadores that counts rows, COUNT(*), instead of COUNT(DISTINCT email_editor)
query_creadores_count_rows(events, r) == Cardinality(UnfilteredRows(events, "CREATE", r))
query_creadores(events, r) == CountDistinct({e.email_editor : e \in UnfilteredRows(events, "CREATE", r)})
query_publicadores(events, r) == CountDistinct({e.email_editor : e \in UnfilteredRows(events, "FIRST_PUBLISH", r)})
query_notas(events, r) == Cardinality({e.note_id : e \in UnfilteredRows(events, "FIRST_PUBLISH", r)})

\* rk: the numberings the window functions of the call produced
\*   rk.counts (primer_save of query_counts), rk.all (primer_save_all),
\*   rk.notas (primer_save of query_notas)
\* creadores = publicadores = notas = 0 before the queries; each query is in
\* a try block of its own
load_production_metrics(events, r, rk) ==
    IF r.email # NULL
    THEN [creadores_activos |-> Try("production.query_counts",
                                    Cardinality(creadores_notas(events, r, rk.counts, rk.all)), 0),
          publicadores_activos |-> Try("production.query_counts",
                                       Cardinality(publicadores_notas(events, r, rk.counts)), 0),
          notas_publicadas |-> Try("production.query_notas",
                                   Cardinality(prod_notas_counted(events, r, rk.notas)), 0)]
    ELSE [creadores_activos |-> Try("production.query_creadores", query_creadores(events, r), 0),
          publicadores_activos |-> Try("production.query_publicadores", query_publicadores(events, r), 0),
          notas_publicadas |-> Try("production.query_notas", query_notas(events, r), 0)]

\* the st.error calls of load_production_metrics; the except clause of
\* query_counts is a bare pass
load_production_metrics_errors(r) ==
    IF r.email # NULL
    THEN st_error("production.query_notas", "Error cargando notas publicadas")
    ELSE st_error("production.query_creadores", "Error cargando creadores activos")
            \cup st_error("production.query_publicadores", "Error cargando publicadores activos")
            \cup st_error("production.query_notas", "Error cargando notas publicadas")

\* the numberings the window functions of a load_production_metrics call may
\* produce (none is evaluated without a person filter)
NoRk == [n \in {} |-> NULL]
ProductionRankings(events, r) ==
    IF r.email # NULL
    THEN [counts : Rankings(primer_save(events, r.start, r.end, FALSE)),
          all : Rankings(primer_save_all(events)),
          notas : Rankings(primer_save(events, r.start, r.end, FALSE))]
    ELSE {[counts |-> NoRk, all |-> NoRk, notas |-> NoRk]}

(***************************************************************************)
(* load_traffic_metrics                                                    *)
(***************************************************************************)
\* the scope the two scoped traffic queries resolve: (note_id, story_url)
\* rows, every tier restricted to rows whose story_url IS NOT NULL
traffic_scope(events, r, rk) ==
    todas_notas_usuario(events, r.email, r.start, r.end, TRUE, TRUE, rk)
\* urls_del_usuario: story_url of the scope rows whose note has a
\* FIRST_PUBLISH in the window
urls_del_usuario(events, r, rk) ==
    LET publicadas == notas_publicadas_periodo(events, r.start, r.end)
    IN {t.story_url : t \in {x \in traffic_scope(events, r, rk) : x.note_id \in publicadas}}
\* rows of the Gold table the main query sums
traffic_rows(events, g_rows, r, rk) ==
    IF r.email # NULL
    THEN LET urls == urls_del_usuario(events, r, rk)
         IN {g \in g_rows : /\ Between(g.date, r.start, r.end)
                             /\ g.article_url \in urls
                             /\ (r.seccion = NULL \/ g.section = r.seccion)
                             /\ PaisOk(g.creator_email, r.pais)}
    ELSE {g \in g_rows : /\ Between(g.date, r.start, r.end)
                         /\ Between(g.publish_date, r.start, r.end)
                         /\ (r.seccion = NULL \/ g.section = r.seccion)
                         /\ PaisOk(g.creator_email, r.pais)}
\* rows query_users sums: Silver rows, joined to Gold without a person filter
users_rows(events, g_rows, s_rows, r, rk) ==
    IF r.email # NULL
    THEN LET urls == urls_del_usuario(events, r, rk)
         IN {<<s, s>> : s \in {x \in s_rows : /\ Between(x.event_date, r.start, r.end)
                                               /\ x.article_url \in urls}}
    ELSE {<<s, g>> \in s_rows \X g_rows :
            /\ s.article_url = g.article_url /\ s.event_date = g.date
            /\ Between(s.event_date, r.start, r.end)
            /\ Between(g.publish_date, r.start, r.end)
            /\ (r.seccion = NULL \/ g.section = r.seccion)
            /\ PaisOk(g.creator_email, r.pais)}

\* rk.traffic, rk.users: the numberings of primer_save in query and query_users
load_traffic_metrics(events, g_rows, s_rows, r, rk) ==
    LET rows == traffic_rows(events, g_rows, r, rk.traffic)
        visits == SqlSum([g \in rows |-> g.visits], rows)
        scrolls == SqlSum([g \in rows |-> g.scrolls], rows)
        tiempo == FloatOrZero(SafeDivide(SqlSum([g \in rows |-> g.total_time_seconds], rows), visits))
        pairs == users_rows(events, g_rows, s_rows, r, rk.users)
        zero == [num |-> 0, den |-> 1]
    IN [visitas_totales |-> Try("traffic.query", IntOrZero(visits), 0),
        pageviews_totales |-> Try("traffic.query", IntOrZero(SqlSum([g \in rows |-> g.pageviews], rows)), 0),
        tiempo_promedio_min |-> Try("traffic.query", [num |-> tiempo.num, den |-> tiempo.den * 60], zero),
        scroll_promedio |-> Try("traffic.query", FloatOrZero(SafeDivide(scrolls, visits)), zero),
        scrolls_totales |-> Try("traffic.query", IntOrZero(scrolls), 0),
        usuarios_unicos |-> Try("traffic.query_users",
                                IntOrZero(SqlSum([q \in pairs |-> q[1].daily_users], pairs)), 0)]

\* the st.error call of load_traffic_metrics; the except clause of
\* query_users is a bare pass
load_traffic_metrics_errors == st_error("traffic.query", "Error cargando metricas de trafico")

TrafficRankings(events, r) ==
    IF r.email # NULL
    THEN [traffic : Rankings(primer_save(events, r.start, r.end, TRUE)),
          users : Rankings(primer_save(events, r.start, r.end, TRUE))]
    ELSE {[traffic |-> NoRk, users |-> NoRk]}

(***************************************************************************)
(* load_kpis                                                               *)
(***************************************************************************)
\* Python's a / b on numbers: a quotient, or ZeroDivisionError
PyDiv(a, b) == IF b = 0 THEN [raised |-> "ZeroDivisionError"] ELSE [num |-> a, den |-> b]

\* productividad that forgets the max(notas, 1) guard
productividad_unguarded(visitas, notas) == PyDiv(visitas, notas)
\* productividad = visitas / max(notas, 1)
productividad(visitas, notas) == PyDiv(visitas, Max(notas, 1))

load_kpis(production, traffic) ==
    [creadores_activos |-> production.creadores_activos,
     publicadores_activos |-> production.publicadores_activos,
     notas_publicadas |-> production.notas_publicadas,
     visitas_totales |-> traffic.visitas_totales,
     usuarios_unicos |-> traffic.usuarios_unicos,
     pageviews_totales |-> traffic.pageviews_totales,
     tiempo_promedio_min |-> traffic.tiempo_promedio_min,
     scroll_promedio |-> traffic.scroll_promedio,
     scrolls_totales |-> traffic.scrolls_totales,
     productividad |-> productividad(traffic.visitas_totales, production.notas_publicadas)]

(***************************************************************************)
(* load_previous_kpis                                                      *)
(***************************************************************************)
\* the dates of the model as main() formats them with strftime('%Y-%m-%d'):
\* day 1 is 2024-03-01, the days before it are the last days of February
Calendar == <<"2024-02-27", "2024-02-28", "2024-02-29", "2024-03-01", "2024-03-02">>
\* strftime('%Y-%m-%d') of the day with ordinal d
Strftime(d) == Calendar[d + 3]
\* datetime.strptime(s, '%Y-%m-%d'), as the ordinal of the day
Strptime(s) == (CHOOSE i \in DOMAIN Calendar : Calendar[i] = s) - 3
\* the DATE a query reads from the literal '{start_date}' / '{end_date}'
SqlDate(s) == (CHOOSE i \in DOMAIN Calendar : Calendar[i] = s) - 3
\* period_days = (end_dt - start_dt).days + 1
period_days(start_date, end_date) == (Strptime(end_date) - Strptime(start_date)) + 1
\* previous window that starts one day too early: prev_end - period_days
previous_window_one_day_longer(start_date, end_date) ==
    LET prev_end == Strptime(start_date) - 1
        prev_start == prev_end - period_days(start_date, end_date)
    IN [start |-> Strftime(prev_start), end |-> Strftime(prev_end)]
\* prev_end = start_dt - 1 day; prev_start = prev_end - (period_days - 1) days
previous_window(start_date, end_date) ==
    LET prev_end == Strptime(start_date) - 1
        prev_start == prev_end - (period_days(start_date, end_date) - 1)
    IN [start |-> Strftime(prev_start), end |-> Strftime(prev_end)]

(***************************************************************************)
(* @st.cache_data(ttl=3600): every load_* function is memoized on its      *)
(* arguments; _client, whose name starts with an underscore, is not hashed *)
(***************************************************************************)
\* ttl=3600, in seconds
TTL == 3600
NoCache == <<>>
\* the arguments only some of the functions take
NoExtra == [limit |-> 0, metric |-> NULL]
\* the function and the hashed arguments of a call
Key(op, r, extra) ==
    [op |-> op, start_date |-> Strftime(r.start), end_date |-> Strftime(r.end),
     limit |-> extra.limit, metric |-> extra.metric,
     email_filter |-> r.email, seccion_filter |-> r.seccion, pais_filter |-> r.pais]
\* a lookup that never finds an entry
Fresh_never(key) == FALSE
\* the lookup finds an entry stored less than ttl seconds ago
Fresh(key) == key \in DOMAIN cache /\ cache[key].age < TTL
\* what a call answered from the cache returns: the function body does not
\* run, and the st.error elements it showed when it ran are replayed
Hit(op, key) == [op |-> op, value |-> cache[key].value, errors |-> cache[key].shown, hit |-> TRUE, queried |-> {}]
\* what the cache keeps of a call: the value returned and the elements shown
Stored(value, shown) == [value |-> value, shown |-> shown]
\* a cache that keeps no value of a call whose query failed
Put_unless_failed(names, entries) ==
    IF names \cap down # {} THEN cache
    ELSE [k \in DOMAIN cache \cup DOMAIN entries |->
            IF k \in DOMAIN entries
            THEN [value |-> entries[k].value, shown |-> entries[k].shown, age |-> 0]
            ELSE cache[k]]
\* the calls that returned store their values; a call an exception left stores nothing
Put(names, entries) ==
    IF Raises(names) THEN cache
    ELSE [k \in DOMAIN cache \cup DOMAIN entries |->
            IF k \in DOMAIN entries
            THEN [value |-> entries[k].value, shown |-> entries[k].shown, age |-> 0]
            ELSE cache[k]]
\* production = load_production_metrics(...), traffic = load_traffic_metrics(...)
\* as load_kpis calls them: both are memoized themselves
cached_production_metrics(events, r, rk) ==
    LET key == Key("load_production_metrics", r, NoExtra)
    IN IF Fresh(key) THEN cache[key].value ELSE load_production_metrics(events, r, rk)
cached_traffic_metrics(events, g_rows, s_rows, r, rk) ==
    LET key == Key("load_traffic_metrics", r, NoExtra)
    IN IF Fresh(key) THEN cache[key].value ELSE load_traffic_metrics(events, g_rows, s_rows, r, rk)
\* the queries the store receives from the body of load_kpis
production_queries(r) ==
    IF r.email # NULL
    THEN {"production.query_counts", "production.query_notas"}
    ELSE {"production.query_creadores", "production.query_publicadores", "production.query_notas"}
traffic_queries == {"traffic.query", "traffic.query_users"}
kpis_queried(r) ==
    (IF Fresh(Key("load_production_metrics", r, NoExtra)) THEN {} ELSE production_queries(r))
        \cup (IF Fresh(Key("load_traffic_metrics", r, NoExtra)) THEN {} ELSE traffic_queries)
kpis_errors(r) ==
    LET kp == Key("load_production_metrics", r, NoExtra)
        kt == Key("load_traffic_metrics", r, NoExtra)
    IN (IF Fresh(kp) THEN cache[kp].shown ELSE load_production_metrics_errors(r))
            \cup (IF Fresh(kt) THEN cache[kt].shown ELSE load_traffic_metrics_errors)
\* the entries a call of load_kpis that ran its body leaves in the cache
kpis_stored(r, production, traffic, kpis) ==
    LET kp == Key("load_production_metrics", r, NoExtra)
        kt == Key("load_traffic_metrics", r, NoExtra)
    IN (Key("load_kpis", r, NoExtra) :> Stored(kpis, kpis_errors(r)))
            @@ (IF Fresh(kp) THEN NoCache ELSE kp :> Stored(production, load_production_metrics_errors(r)))
            @@ (IF Fresh(kt) THEN NoCache ELSE kt :> Stored(traffic, load_traffic_metrics_errors))

\* the elements the call of load_kpis inside load_previous_kpis shows
previous_errors(rp) ==
    LET key == Key("load_kpis", rp, NoExtra)
    IN IF Fresh(key) THEN cache[key].shown ELSE kpis_errors(rp)

\* the arguments load_previous_kpis hands to load_kpis
previous_request(start_date, end_date, r) ==
    LET prev == previous_window(start_date, end_date)
    IN [r EXCEPT !.start = SqlDate(prev.start), !.end = SqlDate(prev.end)]
\* return load_kpis(_client, prev_start_str, prev_end_str, email_filter, ...)
load_previous_kpis(events, g_rows, s_rows, start_date, end_date, r, rkp, rkt) ==
    LET rp == previous_request(start_date, end_date, r)
        key == Key("load_kpis", rp, NoExtra)
    IN IF Fresh(key) THEN cache[key].value
       ELSE load_kpis(cached_production_metrics(events, rp, rkp),
                      cached_traffic_metrics(events, g_rows, s_rows, rp, rkt))

(***************************************************************************)
(* calculate_delta                                                         *)
(***************************************************************************)
\* the values a caller may pass: a number, float('nan') or None
Float(n) == [kind |-> "float", v |-> n]
NaN == [kind |-> "nan"]
None == [kind |-> "none"]
\* pd.isna(x)
PdIsna(x) == x.kind \in {"nan", "none"}
\* ((current - previous) / previous) * 100 as Python evaluates it: a
\* TypeError on None, nan on nan, ZeroDivisionError on 0, else the quotient;
\* the function returns the pair (delta, direction) or raises
PercentChange(current, previous) ==
    IF current.kind = "none" \/ previous.kind = "none" THEN [raised |-> "TypeError"]
    ELSE IF current.kind = "nan" \/ previous.kind = "nan" THEN NaN
    ELSE IF previous.v = 0 THEN [raised |-> "ZeroDivisionError"]
    ELSE [kind |-> "float", num |-> (current.v - previous.v) * 100, den |-> previous.v]
\* "positive" if delta >= 0 else "negative" (a comparison with nan is False)
Direction(delta) ==
    IF delta.kind = "nan" THEN "negative"
    ELSE IF (delta.num >= 0 /\ delta.den > 0) \/ (delta.num <= 0 /\ delta.den < 0) THEN "positive"
    ELSE "negative"
\* calculate_delta that tests only previous == 0, without pd.isna(previous)
calculate_delta_without_isna(current, previous) ==
    IF previous.kind = "float" /\ previous.v = 0
    THEN [delta |-> [kind |-> "float", num |-> 0, den |-> 1], direction |-> "neutral"]
    ELSE LET delta == PercentChange(current, previous)
         IN IF "raised" \in DOMAIN delta THEN delta ELSE [delta |-> delta, direction |-> Direction(delta)]
\* if previous == 0 or pd.isna(previous): return (0, "neutral")
calculate_delta(current, previous) ==
    IF (previous.kind = "float" /\ previous.v = 0) \/ PdIsna(previous)
    THEN [delta |-> [kind |-> "float", num |-> 0, den |-> 1], direction |-> "neutral"]
    ELSE LET delta == PercentChange(current, previous)
         IN IF "raised" \in DOMAIN delta THEN delta ELSE [delta |-> delta, direction |-> Direction(delta)]

(***************************************************************************)
(* Result tables: grouping, ORDER BY ... DESC, LIMIT.                      *)
(***************************************************************************)
Min(a, b) == IF a <= b THEN a ELSE b
\* the sequences that list every row of a set once
Listings(rows) ==
    {f \in [1..Cardinality(rows) -> rows] : \A i, j \in 1..Cardinality(rows) : i # j => f[i] # f[j]}
\* ORDER BY key DESC: rows with equal keys come in any order
OrderByDesc(rows, key) ==
    {f \in Listings(rows) : \A i, j \in 1..Cardinality(rows) : i < j => f[i][key] >= f[j][key]}
\* ORDER BY key ASC
OrderByAsc(rows, key) ==
    {f \in Listings(rows) : \A i, j \in 1..Cardinality(rows) : i < j => f[i][key] <= f[j][key]}
\* the last n rows of the ordering instead of the first
Limit_last(f, n) == SubSeq(f, Max(1, Len(f) - n + 1), Len(f))
\* LIMIT n
Limit(f, n) == SubSeq(f, 1, Min(n, Len(f)))

\* LEFT JOIN authors a ON LOWER(email) = LOWER(a.email): the author rows an
\* email joins to, one all-NULL row when there is none
NoAuthor == [email |-> NULL, country |-> NULL, complete_name |-> NULL]
JoinAuthors(email) ==
    LET m == {a \in Authors : email # NULL /\ Lower(email) = Lower(a.email)}
    IN IF m = {} THEN {NoAuthor} ELSE m
\* CASE WHEN LOWER(email) = 'infobae' THEN 'Infobae (agencias)'
\*      ELSE COALESCE(a.complete_name, email) END
DisplayName(email, a) ==
    IF email # NULL /\ Lower(email) = "infobae" THEN "Infobae (agencias)"
    ELSE IF a.complete_name # NULL THEN a.complete_name
    ELSE email
\* AND UPPER(a.country) = UPPER('<pais_filter>') on an already joined author row
CountryOk(a, pais) == pais = NULL \/ (a.country # NULL /\ Upper(a.country) = Upper(pais))
\* AND email IS NOT NULL AND email != ''
HasEmail(email) == email # NULL /\ email # ""

(***************************************************************************)
(* load_top_publishers                                                     *)
(***************************************************************************)
top_publishers_scope(events, r, rk) ==
    NoteIds(todas_notas_usuario(events, r.email, r.start, r.end, FALSE, FALSE, rk))
\* joined rows to which the section clause applies under a person filter too
top_publishers_rows_by_section(events, r, rk) ==
    LET scope == top_publishers_scope(events, r, rk)
    IN {<<e, a>> \in EventsIn(events, "FIRST_PUBLISH", r.start, r.end) \X (Authors \cup {NoAuthor}) :
            /\ a \in JoinAuthors(e.email_editor)
            /\ r.email # NULL => e.note_id \in scope
            /\ HasEmail(e.email_editor)
            /\ SeccionOk(e, r.seccion)
            /\ r.email = NULL => CountryOk(a, r.pais)}
\* the joined rows (event, author) the query groups
top_publishers_rows(events, r, rk) ==
    IF r.email # NULL
    THEN LET scope == top_publishers_scope(events, r, rk)
         IN {<<e, a>> \in EventsIn(events, "FIRST_PUBLISH", r.start, r.end) \X (Authors \cup {NoAuthor}) :
                /\ a \in JoinAuthors(e.email_editor)
                /\ e.note_id \in scope
                /\ HasEmail(e.email_editor)}
    ELSE {<<e, a>> \in EventsIn(events, "FIRST_PUBLISH", r.start, r.end) \X (Authors \cup {NoAuthor}) :
                /\ a \in JoinAuthors(e.email_editor)
                /\ HasEmail(e.email_editor)
                /\ SeccionOk(e, r.seccion)
                /\ CountryOk(a, r.pais)}
\* GROUP BY Publicador, Pais; COUNT(DISTINCT e.note_id) with a person filter,
\* COUNT(*) without
top_publishers_groups(events, r, rk) ==
    LET rows == top_publishers_rows(events, r, rk)
        keys == {<<DisplayName(q[1].email_editor, q[2]), q[2].country>> : q \in rows}
        members(k) == {q \in rows : <<DisplayName(q[1].email_editor, q[2]), q[2].country>> = k}
    IN {[Publicador |-> k[1], Pais |-> k[2],
         notas_publicadas |-> IF r.email # NULL
                              THEN Cardinality({q[1].note_id : q \in members(k)})
                              ELSE Cardinality(members(k))] : k \in keys}
\* the tables the call may return: ORDER BY notas_publicadas DESC LIMIT limit
load_top_publishers(events, r, limit, rk) ==
    LET by == "notas_publicadas"
    IN {Try("top_publishers.query", Limit(f, limit), EmptyDataFrame) :
            f \in OrderByDesc(top_publishers_groups(events, r, rk), by)}

load_top_publishers_errors == st_error("top_publishers.query", "Error cargando top publicadores")

(***************************************************************************)
(* load_top_creators                                                       *)
(***************************************************************************)
top_creators_scope(events, r, rk) ==
    NoteIds(todas_notas_usuario(events, r.email, r.start, r.end, FALSE, FALSE, rk))
\* with a person filter: creadores_reales of the user's notes joined to authors
top_creators_scoped_rows(events, r, rk, rk_all) ==
    LET scope == top_creators_scope(events, r, rk)
    IN {<<cr, a>> \in creadores_reales(events, rk_all) \X (Authors \cup {NoAuthor}) :
            /\ a \in JoinAuthors(cr.creador_email)
            /\ cr.note_id \in scope
            /\ HasEmail(cr.creador_email)}
\* without: the CREATE rows of the window joined to authors
top_creators_plain_rows(events, r) ==
    {<<e, a>> \in EventsIn(events, "CREATE", r.start, r.end) \X (Authors \cup {NoAuthor}) :
        /\ a \in JoinAuthors(e.email_editor)
        /\ HasEmail(e.email_editor)
        /\ SeccionOk(e, r.seccion)
        /\ CountryOk(a, r.pais)}
top_creators_groups(events, r, rk, rk_all) ==
    IF r.email # NULL
    THEN LET rows == top_creators_scoped_rows(events, r, rk, rk_all)
             keys == {<<DisplayName(q[1].creador_email, q[2]), q[2].country>> : q \in rows}
             members(k) == {q \in rows : <<DisplayName(q[1].creador_email, q[2]), q[2].country>> = k}
         IN {[Creador |-> k[1], Pais |-> k[2],
              notas_creadas |-> Cardinality({q[1].note_id : q \in members(k)})] : k \in keys}
    ELSE LET rows == top_creators_plain_rows(events, r)
             keys == {<<DisplayName(q[1].email_editor, q[2]), q[2].country>> : q \in rows}
             members(k) == {q \in rows : <<DisplayName(q[1].email_editor, q[2]), q[2].country>> = k}
         IN {[Creador |-> k[1], Pais |-> k[2], notas_creadas |-> Cardinality(members(k))] : k \in keys}
load_top_creators(events, r, limit, rk, rk_all) ==
    LET by == "notas_creadas"
    IN {Try("top_creators.query", Limit(f, limit), EmptyDataFrame) :
            f \in OrderByDesc(top_creators_groups(events, r, rk, rk_all), by)}

load_top_creators_errors == st_error("top_creators.query", "Error cargando top creadores")

\* the numberings a scoped query with one primer_save (rows with or without a
\* story_url filter) may produce
ScopeRankings(events, r, url_not_null) ==
    IF r.email # NULL THEN Rankings(primer_save(events, r.start, r.end, url_not_null)) ELSE {NoRk}
AllRankings(events, r) ==
    IF r.email # NULL THEN Rankings(primer_save_all(events)) ELSE {NoRk}

(***************************************************************************)
(* load_section_stats                                                      *)
(***************************************************************************)
\* LOWER(source) LIKE '%composer%' / '%scribnews%' over the sources that occur
\* LIKE '%composer%' applied to the source as stored, without LOWER
LikeComposer_case_sensitive(source) ==
    source # NULL /\ source \in {"composer", "composer-scribnews"}
LikeComposer(source) ==
    source # NULL /\ Lower(source) \in {"composer", "composercms", "composer-scribnews"}
LikeScribnews(source) ==
    source # NULL /\ Lower(source) \in {"scribnews", "scribnews-auto", "composer-scribnews"}
\* segment IS NOT NULL AND segment != ''
HasSegment(e) == e.segment # NULL /\ e.segment # ""

\* with a person filter: (note_id, story_url) rows, no story_url filter
section_scope(events, r, rk) ==
    todas_notas_usuario(events, r.email, r.start, r.end, TRUE, FALSE, rk)
\* notas_usuario_publicadas
section_publicadas(events, r, rk) ==
    LET publicadas == notas_publicadas_periodo(events, r.start, r.end)
    IN {t \in section_scope(events, r, rk) : t.note_id \in publicadas}
\* the FIRST_PUBLISH rows editorial_stats groups
section_editorial_rows(events, r, rk) ==
    IF r.email # NULL
    THEN LET notas == NoteIds(section_publicadas(events, r, rk))
         IN {e \in EventsIn(events, "FIRST_PUBLISH", r.start, r.end) :
                HasSegment(e) /\ e.note_id \in notas /\ SeccionOk(e, r.seccion)}
    ELSE {e \in EventsIn(events, "FIRST_PUBLISH", r.start, r.end) :
                HasSegment(e) /\ SeccionOk(e, r.seccion) /\ PaisOk(e.email_editor, r.pais)}
\* traffic_stats of one section: the rows it sums, as (key, row) pairs
section_traffic_rows(events, g_rows, s_rows, r, rk, seccion) ==
    IF r.email # NULL
    THEN LET urls == {e.story_url : e \in {x \in section_editorial_rows(events, r, rk) :
                                            x.segment = seccion /\ x.story_url # NULL}}
         IN {<<g.article_url, g>> : g \in {x \in s_rows : x.article_url \in urls
                                                          /\ Between(x.event_date, r.start, r.end)}}
    ELSE {<<g.article_url, g>> : g \in {x \in g_rows :
                /\ Between(x.date, r.start, r.end)
                /\ Between(x.publish_date, r.start, r.end)
                /\ x.section # NULL /\ x.section # "" /\ x.section = seccion
                /\ (r.seccion = NULL \/ x.section = r.seccion)
                /\ PaisOk(x.creator_email, r.pais)}}
section_row(events, g_rows, s_rows, r, rk, seccion) ==
    LET ed == {e \in section_editorial_rows(events, r, rk) : e.segment = seccion}
        notas == Cardinality({e.note_id : e \in ed})
        tr == section_traffic_rows(events, g_rows, s_rows, r, rk, seccion)
        scoped == r.email # NULL
        sesiones == SqlSum([q \in tr |-> IF scoped THEN q[2].daily_sessions ELSE q[2].visits], tr)
        pageviews == SqlSum([q \in tr |-> IF scoped THEN q[2].daily_pageviews ELSE q[2].pageviews], tr)
        scrolls == SqlSum([q \in tr |-> IF scoped THEN q[2].sessions_with_scroll ELSE q[2].scrolls], tr)
    IN [seccion |-> seccion,
        notas |-> notas,
        composer |-> Cardinality({e.note_id : e \in {x \in ed : LikeComposer(x.source)}}),
        scribnews |-> Cardinality({e.note_id : e \in {x \in ed : LikeScribnews(x.source)}}),
        sesiones |-> IntOrZero(sesiones),
        pageviews |-> IntOrZero(pageviews),
        scroll_promedio |-> FloatOrZero(SafeDivide(scrolls, sesiones)),
        productividad |-> SafeDivide(Num(IntOrZero(sesiones)), Num(notas))]
\* the tables the call may return: one row per section, ORDER BY notas DESC
load_section_stats(events, g_rows, s_rows, r, rk) ==
    LET secciones == {e.segment : e \in section_editorial_rows(events, r, rk)}
        by == "notas"
    IN {Try("section_stats.query", f, EmptyDataFrame) :
            f \in OrderByDesc({section_row(events, g_rows, s_rows, r, rk, sec) : sec \in secciones}, by)}

load_section_stats_errors == st_error("section_stats.query", "Error cargando secciones")

(***************************************************************************)
(* load_filter_options                                                     *)
(***************************************************************************)
\* the order sorted() and ORDER BY give the strings of the model
Collation == <<"AR", "Alice", "Bob", "Carol", "Infobae", "MX", "alice@x", "ar", "bob@x", "carol@x",
               "dave@x", "deportes", "mx", "politica">>
StrRank(x) == CHOOSE i \in DOMAIN Collation : Collation[i] = x
\* sorted(values): the one ascending listing of a set of strings
Sorted(values) ==
    CHOOSE f \in Listings(values) : \A i, j \in 1..Cardinality(values) : i < j => StrRank(f[i]) < StrRank(f[j])
\* truth value of a string cell: None and '' are false
Truthy(x) == x # NULL /\ x # ""
\* query_emails: SELECT DISTINCT email_editor, display_name, country
query_emails(events, start, end) ==
    LET rows == {<<e, a>> \in (EventsIn(events, "CREATE", start, end)
                                 \cup EventsIn(events, "FIRST_PUBLISH", start, end)) \X (Authors \cup {NoAuthor}) :
                    a \in JoinAuthors(e.email_editor) /\ HasEmail(e.email_editor)}
    IN {[email_editor |-> q[1].email_editor,
         display_name |-> IF q[2].complete_name # NULL THEN q[2].complete_name ELSE q[1].email_editor,
         country |-> q[2].country] : q \in rows}
\* email_options[display] = email for every row with both cells true; of
\* the rows that share a display name the last one listed stays
email_options(df_emails) ==
    LET rows == {row \in df_emails : Truthy(row.email_editor) /\ Truthy(row.display_name)}
        displays == {row.display_name : row \in rows}
    IN {f \in [displays -> {row.email_editor : row \in rows}] :
            \A d \in displays : \E row \in rows : row.display_name = d /\ row.email_editor = f[d]}
\* query_secciones
query_secciones(events, start, end) ==
    {e.segment : e \in {x \in EventsIn(events, "FIRST_PUBLISH", start, end) : HasSegment(x)}}
\* query_paises: authors of editors active in the window, country not empty
query_paises(events, start, end) ==
    LET editors == {e.email_editor : e \in {x \in EventsIn(events, "CREATE", start, end)
                                                  \cup EventsIn(events, "FIRST_PUBLISH", start, end) :
                                                HasEmail(x.email_editor)}}
    IN {a.country : a \in {x \in Authors : /\ \E m \in editors : Lower(x.email) = Lower(m)
                                            /\ x.country # NULL /\ x.country # ""}}
\* the option sets the call may return; each of the three queries is in a
\* try block of its own whose bare except clause sets {} or []
load_filter_options(events, start, end) ==
    {[email_options |-> Try("filter_options.query_emails", f, <<>>),
      secciones |-> Try("filter_options.query_secciones", Sorted(query_secciones(events, start, end)), <<>>),
      paises |-> Try("filter_options.query_paises", Sorted(query_paises(events, start, end)), <<>>)] :
        f \in email_options(query_emails(events, start, end))}

\* load_filter_options never calls st.error
load_filter_options_errors == {}

(***************************************************************************)
(* load_source_efficiency                                                  *)
(***************************************************************************)
source_scope(events, r, rk) ==
    NoteIds(todas_notas_usuario(events, r.email, r.start, r.end, FALSE, FALSE, rk))
\* CASE that matches the source strings before the agency identity
Fuente_source_first(e) ==
    IF LikeScribnews(e.source) THEN "Scribnews"
    ELSE IF LikeComposer(e.source) THEN "Composer"
    ELSE IF e.email_editor # NULL /\ Lower(e.email_editor) = "infobae" THEN "Agencias"
    ELSE "Otros"
\* CASE ... END AS fuente
Fuente(e) ==
    IF e.email_editor # NULL /\ Lower(e.email_editor) = "infobae" THEN "Agencias"
    ELSE IF LikeScribnews(e.source) THEN "Scribnews"
    ELSE IF LikeComposer(e.source) THEN "Composer"
    ELSE "Otros"
\* notas_por_fuente: the FIRST_PUBLISH rows of the window it classifies
notas_por_fuente(events, r, rk) ==
    IF r.email # NULL
    THEN LET notas == source_scope(events, r, rk) \cap notas_publicadas_periodo(events, r.start, r.end)
         IN {e \in EventsIn(events, "FIRST_PUBLISH", r.start, r.end) :
                e.note_id \in notas /\ SeccionOk(e, r.seccion)}
    ELSE {e \in EventsIn(events, "FIRST_PUBLISH", r.start, r.end) :
                SeccionOk(e, r.seccion) /\ PaisOk(e.email_editor, r.pais)}
\* metricas of one fuente: notas_por_fuente LEFT JOIN the traffic table
source_row(events, g_rows, s_rows, r, rk, fuente) ==
    LET ns == {e \in notas_por_fuente(events, r, rk) : Fuente(e) = fuente}
        scoped == r.email # NULL
        tr == IF scoped
              THEN {<<e, g>> \in ns \X s_rows : e.story_url # NULL /\ e.story_url = g.article_url
                                                /\ Between(g.event_date, r.start, r.end)}
              ELSE {<<e, g>> \in ns \X g_rows : e.story_url # NULL /\ e.story_url = g.article_url
                                                /\ Between(g.date, r.start, r.end)}
        sesiones == SqlSum([q \in tr |-> IF scoped THEN q[2].daily_sessions ELSE q[2].visits], tr)
        pageviews == SqlSum([q \in tr |-> IF scoped THEN q[2].daily_pageviews ELSE q[2].pageviews], tr)
        scrolls == SqlSum([q \in tr |-> IF scoped THEN q[2].sessions_with_scroll ELSE q[2].scrolls], tr)
        tiempo == SqlSum([q \in tr |-> IF scoped THEN q[2].total_engagement_seconds ELSE q[2].total_time_seconds], tr)
        notas == Cardinality({e.note_id : e \in ns})
        minutos == FloatOrZero(SafeDivide(tiempo, sesiones))
    IN [fuente |-> fuente,
        notas |-> notas,
        sesiones |-> IntOrZero(sesiones),
        pageviews |-> IntOrZero(pageviews),
        sesiones_por_nota |-> SafeDivide(Num(IntOrZero(sesiones)), Num(notas)),
        scroll_promedio |-> FloatOrZero(SafeDivide(scrolls, sesiones)),
        tiempo_promedio_min |-> [num |-> minutos.num, den |-> minutos.den * 60]]
\* WHERE fuente != 'Otros' ORDER BY sesiones DESC
load_source_efficiency(events, g_rows, s_rows, r, rk) ==
    LET fuentes == {Fuente(e) : e \in notas_por_fuente(events, r, rk)} \ {"Otros"}
        by == "sesiones"
    IN {Try("source_efficiency.query", t, EmptyDataFrame) :
            t \in OrderByDesc({source_row(events, g_rows, s_rows, r, rk, f) : f \in fuentes}, by)}

load_source_efficiency_errors == st_error("source_efficiency.query", "Error cargando eficiencia por fuente")

(***************************************************************************)
(* load_daily_evolution                                                    *)
(***************************************************************************)
Metrics == {"visits", "users", "notas", "pageviews", "scrolls"}
\* the scope the query of a metric resolves: note ids for 'notas', (note_id,
\* story_url) rows with a story_url for the traffic metrics
daily_scope(events, r, metric, rk) ==
    IF metric = "notas"
    THEN todas_notas_usuario(events, r.email, r.start, r.end, FALSE, FALSE, rk)
    ELSE todas_notas_usuario(events, r.email, r.start, r.end, TRUE, TRUE, rk)
\* urls_usuario
urls_usuario(events, r, metric, rk) ==
    LET publicadas == notas_publicadas_periodo(events, r.start, r.end)
    IN {t.story_url : t \in {x \in daily_scope(events, r, metric, rk) : x.note_id \in publicadas}}
\* the rows the query of a metric groups by day, as (day, contribution, row)
daily_rows(events, g_rows, s_rows, r, metric, rk) ==
    IF metric = "notas"
    THEN IF r.email # NULL
         THEN LET scope == NoteIds(daily_scope(events, r, metric, rk))
              IN {<<DateOf(e.event_timestamp), 1, e>> : e \in {x \in EventsIn(events, "FIRST_PUBLISH", r.start, r.end) :
                        x.note_id \in scope /\ SeccionOk(x, r.seccion)}}
         ELSE {<<DateOf(e.event_timestamp), 1, e>> : e \in {x \in EventsIn(events, "FIRST_PUBLISH", r.start, r.end) :
                        SeccionOk(x, r.seccion) /\ PaisOk(x.email_editor, r.pais)}}
    ELSE IF metric = "users"
    THEN IF r.email # NULL
         THEN LET urls == urls_usuario(events, r, metric, rk)
              IN {<<x.event_date, x.daily_users, x>> : x \in {y \in s_rows :
                        Between(y.event_date, r.start, r.end) /\ y.article_url \in urls}}
         ELSE {<<q[1].event_date, q[1].daily_users, q>> : q \in {y \in s_rows \X g_rows :
                        /\ y[1].article_url = y[2].article_url /\ y[1].event_date = y[2].date
                        /\ Between(y[1].event_date, r.start, r.end)
                        /\ Between(y[2].publish_date, r.start, r.end)
                        /\ (r.seccion = NULL \/ y[2].section = r.seccion)
                        /\ PaisOk(y[2].creator_email, r.pais)}}
    ELSE LET value(g) == IF metric = "visits" THEN g.visits
                         ELSE IF metric = "pageviews" THEN g.pageviews ELSE g.scrolls
         IN IF r.email # NULL
            THEN LET urls == urls_usuario(events, r, metric, rk)
                 IN {<<g.date, value(g), g>> : g \in {y \in g_rows :
                        /\ Between(y.date, r.start, r.end) /\ y.article_url \in urls
                        /\ (r.seccion = NULL \/ y.section = r.seccion)}}
            ELSE {<<g.date, value(g), g>> : g \in {y \in g_rows :
                        /\ Between(y.date, r.start, r.end)
                        /\ Between(y.publish_date, r.start, r.end)
                        /\ (r.seccion = NULL \/ y.section = r.seccion)
                        /\ PaisOk(y.creator_email, r.pais)}}
\* GROUP BY fecha ORDER BY fecha: COUNT(DISTINCT note_id) for the scoped
\* 'notas', COUNT(*) or SUM(...) otherwise
\* a series with a point for every day of the window, 0 where no row falls
daily_series_zero_filled(events, g_rows, s_rows, r, metric, rk) ==
    LET rows == daily_rows(events, g_rows, s_rows, r, metric, rk)
        of(d) == {q \in rows : q[1] = d}
        points == {[fecha |-> d, valor |-> SumF([q \in of(d) |-> q[2]], of(d))] :
                        d \in {x \in Days : Between(x, r.start, r.end)}}
        by == "fecha"
    IN CHOOSE f \in OrderByAsc(points, by) : TRUE
\* what the query of load_daily_evolution answers: one point per day
daily_series(events, g_rows, s_rows, r, metric, rk) ==
    LET rows == daily_rows(events, g_rows, s_rows, r, metric, rk)
        of(d) == {q \in rows : q[1] = d}
        points == {[fecha |-> d,
                    valor |-> IF metric = "notas" /\ r.email # NULL
                              THEN Cardinality({q[3].note_id : q \in of(d)})
                              ELSE SumF([q \in of(d) |-> q[2]], of(d))] : d \in {q[1] : q \in rows}}
        by == "fecha"
    IN CHOOSE f \in OrderByAsc(points, by) : TRUE

\* try: return df  except: return pd.DataFrame()
load_daily_evolution(events, g_rows, s_rows, r, metric, rk) ==
    Try("daily_evolution.query", daily_series(events, g_rows, s_rows, r, metric, rk), EmptyDataFrame)

\* the except clause of load_daily_evolution is bare and issues nothing
load_daily_evolution_errors == {}

(***************************************************************************)
(* The tables' possible rows and the arguments of a run.                   *)
(***************************************************************************)
ActionTypes == {"CREATE", "SAVE", "FIRST_PUBLISH"}

\* rows an editorial producer may append while the scope rules are examined:
\* a CREATE row carries no story_url yet, a FIRST_PUBLISH row carries one, a
\* SAVE row carries one from the second day on
ScopeEvents ==
    {e \in [note_id : Notes, email_editor : {"carol@x", "dave@x"}, action_type : ActionTypes,
            event_timestamp : Timestamps, story_url : Urls \cup {NULL},
            segment : {"politica"}, source : {"composer"}] :
        /\ e.story_url \in {NULL, Url(e.note_id)}
        /\ e.action_type = "CREATE" => e.story_url = NULL
        /\ e.action_type = "FIRST_PUBLISH" => e.story_url # NULL
        /\ e.action_type = "SAVE" => (e.story_url = NULL <=> e.event_timestamp.day = 1)}

\* one Gold row and one Silver row per article and day; the values are
\* distinct powers of two, so a sum tells which rows it added
Weight(u, d) == 2 ^ ((IF u = Url(1) THEN 0 ELSE 2) + (d - 1))
GoldRows ==
    {[article_url |-> u, date |-> d, visits |-> Weight(u, d), pageviews |-> 16 * Weight(u, d),
      total_time_seconds |-> 60 * Weight(u, d), scrolls |-> Weight(u, d),
      section |-> "politica", creator_email |-> "carol@x", publish_date |-> d] :
        u \in Urls, d \in Days}
SilverRows ==
    {[article_url |-> u, event_date |-> d, daily_users |-> Weight(u, d),
      daily_sessions |-> Weight(u, d), daily_pageviews |-> 16 * Weight(u, d),
      sessions_with_scroll |-> Weight(u, d), total_engagement_seconds |-> 60 * Weight(u, d)] :
        u \in Urls, d \in Days}

NoReq == [start |-> 0, end |-> 0, email |-> NULL, seccion |-> NULL, pais |-> NULL]
NoRet == [op |-> "none"]
NoScopes == [q \in {} |-> {}]
\* the scope a query resolved is recorded only when a person filter is active
Resolved(q, notes) == IF req.email # NULL THEN q :> notes ELSE NoScopes
\* the scope the first query of the run resolved stays recorded for the run
First(sc) == [q \in DOMAIN sc \cap {"production.counts"} |-> sc[q]]
\* the (note_id, creador_email) rows of creadores_reales for the notes of a scope
Creadores(events, scope, rk_all) == {cr \in creadores_reales(events, rk_all) : cr.note_id \in scope}

\* limit: main() asks for the first 10 rows of each leaderboard
TopLimit == 10

(***************************************************************************)
(* Actions.                                                                *)
(***************************************************************************)
\* the queries a load_* call of main() sends to the store
Queries(op, r) ==
    CASE op = "load_filter_options" ->
            {"filter_options.query_emails", "filter_options.query_secciones", "filter_options.query_paises"}
      [] op \in {"load_kpis", "load_previous_kpis"} ->
            (IF r.email # NULL
             THEN {"production.query_counts", "production.query_notas"}
             ELSE {"production.query_creadores", "production.query_publicadores", "production.query_notas"})
                \cup {"traffic.query", "traffic.query_users"}
      [] op = "load_top_publishers" -> {"top_publishers.query"}
      [] op = "load_top_creators" -> {"top_creators.query"}
      [] op = "load_section_stats" -> {"section_stats.query"}
      [] op = "load_source_efficiency" -> {"source_efficiency.query"}
      [] op = "load_daily_evolution" -> {"daily_evolution.query"}
      [] OTHER -> {}
QueryNames == UNION {Queries(op, r) : op \in {"load_filter_options", "load_kpis", "load_top_publishers",
                                                "load_top_creators", "load_section_stats",
                                                "load_source_efficiency", "load_daily_evolution"},
                                      r \in {[email |-> NULL], [email |-> "alice@x"]}}
\* what main() holds after a call: the value returned, or the exception that
\* left the call and ends the script run
Outcome(names, returned) == IF Raises(names) THEN [op |-> returned.op, raised |-> TRUE] ELSE returned
Continue(names, next) == IF Raises(names) THEN "aborted" ELSE next

\* the store starts failing a query
StoreFails(q) ==
    /\ pc = "idle"
    /\ Cardinality(down) < MaxDown
    /\ q \notin down
    /\ down' = down \cup {q}
    /\ UNCHANGED <<log, gold, silver, pc, req, ret, scopes, cache>>

\* the store answers every query again
StoreRecovers ==
    /\ pc = "idle"
    /\ down # {}
    /\ down' = {}
    /\ UNCHANGED <<log, gold, silver, pc, req, ret, scopes, cache>>

\* the editorial producer appends a row; the program only reads the table
Ingest(e) ==
    /\ pc = "idle"
    /\ Cardinality(log) < MaxLog
    /\ e \notin log
    /\ log' = log \cup {e}
    /\ UNCHANGED <<gold, silver, pc, req, ret, scopes, down, cache>>

\* main(): the sidebar yields a valid window and the three filters
SelectFilters(start, end, email, seccion, pais) ==
    /\ pc = "idle"
    /\ ~(start > end)
    /\ req' = [start |-> start, end |-> end, email |-> email, seccion |-> seccion, pais |-> pais]
    /\ ret' = NoRet
    /\ scopes' = NoScopes
    /\ pc' = "load_kpis"
    /\ UNCHANGED <<log, gold, silver, down, cache>>

\* main(): if start > end: st.error(...); return
RejectWindow(start, end) ==
    /\ pc = "idle"
    /\ start > end
    /\ req' = [start |-> start, end |-> end, email |-> NULL, seccion |-> NULL, pais |-> NULL]
    /\ ret' = [op |-> "main", errors |-> {"La fecha inicial debe ser anterior a la final"}]
    /\ scopes' = NoScopes
    /\ pc' = "done"
    /\ UNCHANGED <<log, gold, silver, down, cache>>

\* a sidebar that goes on to the filters without comparing the two dates
SelectWindow_unchecked(start, end) ==
    /\ pc = "idle"
    /\ req' = [start |-> start, end |-> end, email |-> NULL, seccion |-> NULL, pais |-> NULL]
    /\ ret' = NoRet
    /\ scopes' = NoScopes
    /\ pc' = "load_filter_options"
    /\ UNCHANGED <<log, gold, silver, down, cache>>
\* main(): the sidebar yields a valid window; the filters are not chosen yet
SelectWindow(start, end) ==
    /\ pc = "idle"
    /\ ~(start > end)
    /\ req' = [start |-> start, end |-> end, email |-> NULL, seccion |-> NULL, pais |-> NULL]
    /\ ret' = NoRet
    /\ scopes' = NoScopes
    /\ pc' = "load_filter_options"
    /\ UNCHANGED <<log, gold, silver, down, cache>>

\* filter_options = load_filter_options(client, start_str, end_str)
LoadFilterOptions ==
    /\ pc = "load_filter_options"
    /\ LET key == Key("load_filter_options", [req EXCEPT !.email = NULL, !.seccion = NULL, !.pais = NULL], NoExtra)
       IN IF Fresh(key)
          THEN /\ ret' = Hit("load_filter_options", key)
               /\ cache' = cache
          ELSE \E options \in load_filter_options(log, req.start, req.end) :
                /\ ret' = Outcome(Queries("load_filter_options", req),
                                  [op |-> "load_filter_options", value |-> options,
                                   errors |-> load_filter_options_errors,
                                   hit |-> FALSE, queried |-> Queries("load_filter_options", req)])
                /\ cache' = Put(Queries("load_filter_options", req), key :> Stored(options, load_filter_options_errors))
    /\ pc' = Continue(Queries("load_filter_options", req), "selectbox")
    /\ UNCHANGED <<log, gold, silver, req, scopes, down>>

\* the three selectboxes: "Todos" / "Todas" or one of the options offered
ChooseFilters(display, seccion, pais) ==
    /\ pc = "selectbox"
    /\ display \in {"Todos"} \cup DOMAIN ret.value.email_options
    /\ seccion \in {"Todas"} \cup {ret.value.secciones[i] : i \in 1..Len(ret.value.secciones)}
    /\ pais \in {"Todos"} \cup {ret.value.paises[i] : i \in 1..Len(ret.value.paises)}
    /\ req' = [req EXCEPT !.email = IF display # "Todos" THEN ret.value.email_options[display] ELSE NULL,
                          !.seccion = IF seccion # "Todas" THEN seccion ELSE NULL,
                          !.pais = IF pais # "Todos" THEN pais ELSE NULL]
    /\ ret' = NoRet
    /\ pc' = "load_kpis"
    /\ UNCHANGED <<log, gold, silver, scopes, down, cache>>

\* kpis = load_kpis(...), which calls load_production_metrics and
\* load_traffic_metrics
LoadKpis ==
    /\ pc = "load_kpis"
    /\ IF Fresh(Key("load_kpis", req, NoExtra))
       THEN /\ ret' = Hit("load_kpis", Key("load_kpis", req, NoExtra))
            /\ scopes' = NoScopes
            /\ cache' = cache
       ELSE \E rkp \in ProductionRankings(log, req), rkt \in TrafficRankings(log, req) :
            \E production \in {cached_production_metrics(log, req, rkp)},
               traffic \in {cached_traffic_metrics(log, gold, silver, req, rkt)} :
            LET kpis == load_kpis(production, traffic)
            IN /\ ret' = Outcome(Queries("load_kpis", req),
                                  [op |-> "load_kpis", production |-> production, traffic |-> traffic,
                                   value |-> kpis,
                                   creadores |-> Creadores(log, prod_counts_scope(log, req, rkp.counts), rkp.all),
                                   errors |-> kpis_errors(req),
                                   hit |-> FALSE, queried |-> kpis_queried(req)])
               /\ scopes' = IF Fresh(Key("load_production_metrics", req, NoExtra)) THEN NoScopes
                             ELSE Resolved("production.counts", prod_counts_scope(log, req, rkp.counts))
                                    @@ Resolved("production.notas", prod_notas_scope(log, req, rkp.notas))
                                    @@ (IF Fresh(Key("load_traffic_metrics", req, NoExtra)) THEN NoScopes
                                        ELSE Resolved("traffic", NoteIds(traffic_scope(log, req, rkt.traffic)))
                                                @@ Resolved("traffic.users", NoteIds(traffic_scope(log, req, rkt.users))))
               /\ cache' = Put(Queries("load_kpis", req), kpis_stored(req, production, traffic, kpis))
    /\ pc' = Continue(Queries("load_kpis", req), "load_previous_kpis")
    /\ UNCHANGED <<log, gold, silver, req, down>>

\* prev_kpis = load_previous_kpis(client, start_str, end_str, ...)
LoadPreviousKpis ==
    /\ pc = "load_previous_kpis"
    /\ LET start_str == Strftime(req.start)
           end_str == Strftime(req.end)
           rp == previous_request(start_str, end_str, req)
           key == Key("load_previous_kpis", req, NoExtra)
       IN IF Fresh(key)
          THEN /\ ret' = Hit("load_previous_kpis", key)
               /\ cache' = cache
          ELSE \E rkp \in ProductionRankings(log, rp), rkt \in TrafficRankings(log, rp) :
                \E value \in {load_previous_kpis(log, gold, silver, start_str, end_str, req, rkp, rkt)},
                   production \in {cached_production_metrics(log, rp, rkp)},
                   traffic \in {cached_traffic_metrics(log, gold, silver, rp, rkt)} :
                   /\ ret' = Outcome(Queries("load_previous_kpis", req),
                                      [op |-> "load_previous_kpis",
                                       window |-> previous_window(start_str, end_str),
                                       filters |-> [email |-> rp.email, seccion |-> rp.seccion, pais |-> rp.pais],
                                       value |-> value,
                                       errors |-> previous_errors(rp),
                                       hit |-> FALSE,
                                       queried |-> IF Fresh(Key("load_kpis", rp, NoExtra)) THEN {} ELSE kpis_queried(rp)])
                   /\ cache' = Put(Queries("load_previous_kpis", req),
                                   (key :> Stored(value, previous_errors(rp)))
                                        @@ (IF Fresh(Key("load_kpis", rp, NoExtra)) THEN NoCache
                                            ELSE kpis_stored(rp, production, traffic, value)))
    /\ scopes' = First(scopes)
    /\ pc' = Continue(Queries("load_previous_kpis", req), "load_top_publishers")
    /\ UNCHANGED <<log, gold, silver, req, down>>

\* load_top_publishers(client, start_str, end_str, limit, ...) called where
\* main() calls it
TopPublishersCall(limit) ==
    /\ pc = "load_top_publishers"
    /\ LET key == Key("load_top_publishers", req, [limit |-> limit, metric |-> NULL])
       IN IF Fresh(key)
          THEN /\ ret' = [op |-> "load_top_publishers", limit |-> limit, value |-> cache[key].value,
                           errors |-> cache[key].shown, hit |-> TRUE, queried |-> {}]
               /\ scopes' = First(scopes)
               /\ cache' = cache
          ELSE \E rk \in ScopeRankings(log, req, FALSE) :
                \E table \in load_top_publishers(log, req, limit, rk) :
                    /\ ret' = Outcome(Queries("load_top_publishers", req),
                                      [op |-> "load_top_publishers", limit |-> limit, value |-> table,
                                       errors |-> load_top_publishers_errors,
                                       hit |-> FALSE, queried |-> Queries("load_top_publishers", req)])
                    /\ scopes' = First(scopes) @@ Resolved("top_publishers", top_publishers_scope(log, req, rk))
                    /\ cache' = Put(Queries("load_top_publishers", req), key :> Stored(table, load_top_publishers_errors))
    /\ pc' = Continue(Queries("load_top_publishers", req), "load_top_creators")
    /\ UNCHANGED <<log, gold, silver, req, down>>
\* top_publishers = load_top_publishers(..., 10, ...)
LoadTopPublishers == TopPublishersCall(TopLimit)

\* load_top_creators(client, start_str, end_str, limit, ...) called where
\* main() calls it
TopCreatorsCall(limit) ==
    /\ pc = "load_top_creators"
    /\ LET key == Key("load_top_creators", req, [limit |-> limit, metric |-> NULL])
       IN IF Fresh(key)
          THEN /\ ret' = [op |-> "load_top_creators", limit |-> limit, value |-> cache[key].value,
                           errors |-> cache[key].shown, hit |-> TRUE, queried |-> {}]
               /\ scopes' = First(scopes)
               /\ cache' = cache
          ELSE \E rk \in ScopeRankings(log, req, FALSE), rk_all \in AllRankings(log, req) :
                \E table \in load_top_creators(log, req, limit, rk, rk_all) :
                    /\ ret' = Outcome(Queries("load_top_creators", req),
                                      [op |-> "load_top_creators", limit |-> limit, value |-> table,
                                       creadores |-> Creadores(log, top_creators_scope(log, req, rk), rk_all),
                                       errors |-> load_top_creators_errors,
                                       hit |-> FALSE, queried |-> Queries("load_top_creators", req)])
                    /\ scopes' = First(scopes) @@ Resolved("top_creators", top_creators_scope(log, req, rk))
                    /\ cache' = Put(Queries("load_top_creators", req), key :> Stored(table, load_top_creators_errors))
    /\ pc' = Continue(Queries("load_top_creators", req), "load_section_stats")
    /\ UNCHANGED <<log, gold, silver, req, down>>
\* top_creators = load_top_creators(..., 10, ...)
LoadTopCreators == TopCreatorsCall(TopLimit)

\* section_stats = load_section_stats(...)
LoadSectionStats ==
    /\ pc = "load_section_stats"
    /\ LET key == Key("load_section_stats", req, NoExtra)
       IN IF Fresh(key)
          THEN /\ ret' = Hit("load_section_stats", key)
               /\ scopes' = First(scopes)
               /\ cache' = cache
          ELSE \E rk \in ScopeRankings(log, req, FALSE) :
                \E table \in load_section_stats(log, gold, silver, req, rk) :
                    /\ ret' = Outcome(Queries("load_section_stats", req),
                                      [op |-> "load_section_stats", value |-> table,
                                       errors |-> load_section_stats_errors,
                                       hit |-> FALSE, queried |-> Queries("load_section_stats", req)])
                    /\ scopes' = First(scopes) @@ Resolved("section_stats", NoteIds(section_scope(log, req, rk)))
                    /\ cache' = Put(Queries("load_section_stats", req), key :> Stored(table, load_section_stats_errors))
    /\ pc' = Continue(Queries("load_section_stats", req), "load_source_efficiency")
    /\ UNCHANGED <<log, gold, silver, req, down>>

\* source_efficiency = load_source_efficiency(...)
LoadSourceEfficiency ==
    /\ pc = "load_source_efficiency"
    /\ LET key == Key("load_source_efficiency", req, NoExtra)
       IN IF Fresh(key)
          THEN /\ ret' = Hit("load_source_efficiency", key)
               /\ scopes' = First(scopes)
               /\ cache' = cache
          ELSE \E rk \in ScopeRankings(log, req, FALSE) :
                \E table \in load_source_efficiency(log, gold, silver, req, rk) :
                    /\ ret' = Outcome(Queries("load_source_efficiency", req),
                                      [op |-> "load_source_efficiency", value |-> table,
                                       errors |-> load_source_efficiency_errors,
                                       hit |-> FALSE, queried |-> Queries("load_source_efficiency", req)])
                    /\ scopes' = First(scopes) @@ Resolved("source_efficiency", source_scope(log, req, rk))
                    /\ cache' = Put(Queries("load_source_efficiency", req), key :> Stored(table, load_source_efficiency_errors))
    /\ pc' = Continue(Queries("load_source_efficiency", req), "load_daily_evolution")
    /\ UNCHANGED <<log, gold, silver, req, down>>

\* render_temporal_zone(): daily_data = load_daily_evolution(..., metric, ...)
\* for the metric of the selectbox
LoadDailyEvolution(metric) ==
    /\ pc = "load_daily_evolution"
    /\ LET key == Key("load_daily_evolution", req, [limit |-> 0, metric |-> metric])
       IN IF Fresh(key)
          THEN /\ ret' = [op |-> "load_daily_evolution", metric |-> metric, value |-> cache[key].value,
                           errors |-> cache[key].shown, hit |-> TRUE, queried |-> {}]
               /\ scopes' = First(scopes)
               /\ cache' = cache
          ELSE \E rk \in ScopeRankings(log, req, metric # "notas") :
                \E value \in {load_daily_evolution(log, gold, silver, req, metric, rk)} :
                   /\ ret' = Outcome(Queries("load_daily_evolution", req),
                                      [op |-> "load_daily_evolution", metric |-> metric,
                                       value |-> value,
                                       errors |-> load_daily_evolution_errors,
                                       hit |-> FALSE, queried |-> Queries("load_daily_evolution", req)])
                   /\ scopes' = First(scopes) @@ Resolved("daily_evolution", NoteIds(daily_scope(log, req, metric, rk)))
                   /\ cache' = Put(Queries("load_daily_evolution", req), key :> Stored(value, load_daily_evolution_errors))
    /\ pc' = Continue(Queries("load_daily_evolution", req), "done")
    /\ UNCHANGED <<log, gold, silver, req, down>>

\* a refresh that clears only the entries of load_kpis
Refresh_only_kpis ==
    /\ pc \in {"idle", "done", "aborted"}
    /\ cache' = [k \in {x \in DOMAIN cache : x.op # "load_kpis"} |-> cache[k]]
    /\ pc' = "idle"
    /\ req' = NoReq
    /\ ret' = [op |-> "st.cache_data.clear", errors |-> {}]
    /\ scopes' = NoScopes
    /\ UNCHANGED <<log, gold, silver, down>>
\* "Refrescar datos": st.cache_data.clear(); st.rerun()
Refresh ==
    /\ pc \in {"idle", "done", "aborted"}
    /\ cache' = NoCache
    /\ pc' = "idle"
    /\ req' = NoReq
    /\ ret' = [op |-> "st.cache_data.clear", errors |-> {}]
    /\ scopes' = NoScopes
    /\ UNCHANGED <<log, gold, silver, down>>

\* time passes between two interactions; entries older than the ttl stay in
\* the cache until a lookup finds them expired
Elapse(seconds) ==
    /\ pc = "idle"
    /\ cache' = [k \in DOMAIN cache |-> [cache[k] EXCEPT !.age = Min(cache[k].age + seconds, TTL)]]
    /\ UNCHANGED <<log, gold, silver, pc, req, ret, scopes, down>>

\* the script run ends; the next interaction starts a new run
Rerun ==
    /\ pc \in {"done", "aborted"}
    /\ pc' = "idle"
    /\ req' = NoReq
    /\ ret' = NoRet
    /\ scopes' = NoScopes
    /\ UNCHANGED <<log, gold, silver, down, cache>>

(***************************************************************************)
(* Runs with a person filter.                                              *)
(***************************************************************************)
Init ==
    /\ log = {}
    /\ gold = GoldRows
    /\ silver = SilverRows
    /\ pc = "idle"
    /\ req = NoReq
    /\ ret = NoRet
    /\ scopes = NoScopes
    /\ down = {}
    /\ cache = NoCache

ScopePersons == {"carol@x", "dave@x"}
\* one metric per query shape of load_daily_evolution
ScopeMetrics == {"notas", "users", "visits"}

Next ==
    \/ \E e \in ScopeEvents : Ingest(e)
    \/ \E start \in Days, end \in Days, email \in ScopePersons : SelectFilters(start, end, email, NULL, NULL)
    \/ LoadKpis
    \/ LoadPreviousKpis
    \/ LoadTopPublishers
    \/ LoadTopCreators
    \/ LoadSectionStats
    \/ LoadSourceEfficiency
    \/ \E metric \in ScopeMetrics : LoadDailyEvolution(metric)
    \/ Refresh

Spec == Init /\ [][Next]_vars

(***************************************************************************)
(* Runs of the newsroom view, with and without the section and country     *)
(* filters, and of one person's view under the same filters.               *)
(***************************************************************************)
\* rows the producer may append here: CREATE and FIRST_PUBLISH rows of two
\* editors; note 1 belongs to one section and note 2 to another
NewsEvents ==
    {e \in [note_id : Notes, email_editor : {"alice@x", "bob@x"}, action_type : {"CREATE", "FIRST_PUBLISH"},
            event_timestamp : Timestamps, story_url : Urls \cup {NULL},
            segment : {"politica", "deportes"}, source : {"composer"}] :
        /\ e.story_url = (IF e.action_type = "CREATE" THEN NULL ELSE Url(e.note_id))
        /\ e.segment = (IF e.note_id = 1 THEN "politica" ELSE "deportes")}

NewsPersons == {NULL, "alice@x"}
NewsSecciones == {NULL, "politica"}
NewsPaises == {NULL, "MX"}

NextNews ==
    \/ \E e \in NewsEvents : Ingest(e)
    \/ \E start \in Days, end \in Days, email \in NewsPersons, seccion \in NewsSecciones, pais \in NewsPaises :
            SelectFilters(start, end, email, seccion, pais)
    \/ LoadKpis
    \/ LoadPreviousKpis
    \/ LoadTopPublishers
    \/ LoadTopCreators
    \/ LoadSectionStats
    \/ LoadSourceEfficiency
    \/ \E metric \in ScopeMetrics : LoadDailyEvolution(metric)
    \/ Refresh

SpecNews == Init /\ [][NextNews]_vars

(***************************************************************************)
(* Runs over published notes of different sources, some published by the   *)
(* agency identity.                                                        *)
(***************************************************************************)
\* rows the producer may append here: FIRST_PUBLISH rows of the first day
SourceStrings == {"ComposerCMS", "scribnews-auto", "composer-scribnews", "wire", NULL}
SourceEvents ==
    {e \in [note_id : Notes, email_editor : {"alice@x", "Infobae"}, action_type : {"FIRST_PUBLISH"},
            event_timestamp : Timestamps, story_url : Urls,
            segment : {"politica"}, source : SourceStrings] :
        /\ e.story_url = Url(e.note_id)
        /\ e.event_timestamp.day = 1}

NextSources ==
    \/ \E e \in SourceEvents : Ingest(e)
    \/ \E start \in Days, end \in Days, email \in NewsPersons : SelectFilters(start, end, email, NULL, NULL)
    \/ LoadKpis
    \/ LoadPreviousKpis
    \/ LoadTopPublishers
    \/ LoadTopCreators
    \/ LoadSectionStats
    \/ LoadSourceEfficiency
    \/ \E metric \in ScopeMetrics : LoadDailyEvolution(metric)
    \/ Refresh

SpecSources == Init /\ [][NextSources]_vars

(***************************************************************************)
(* Runs of main() over rows some of which carry no editor: the filters are *)
(* chosen from the options load_filter_options offers.                     *)
(***************************************************************************)
\* rows the producer may append here: first-day CREATE and FIRST_PUBLISH
\* rows of one editor, of a missing editor and of an empty editor
EditorEvents ==
    {e \in [note_id : Notes, email_editor : {"alice@x", NULL, ""}, action_type : {"CREATE", "FIRST_PUBLISH"},
            event_timestamp : Timestamps, story_url : Urls \cup {NULL},
            segment : {"politica"}, source : {"composer"}] :
        /\ e.story_url = (IF e.action_type = "CREATE" THEN NULL ELSE Url(e.note_id))
        /\ e.event_timestamp.day = 1}

NextEditors ==
    \/ \E e \in EditorEvents : Ingest(e)
    \/ \E start \in Days, end \in Days : RejectWindow(start, end)
    \/ \E start \in Days, end \in Days : SelectWindow(start, end)
    \/ LoadFilterOptions
    \/ \E display \in {"Todos", "Alice"}, seccion \in {"Todas", "politica"}, pais \in {"Todos", "AR"} :
            ChooseFilters(display, seccion, pais)
    \/ LoadKpis
    \/ LoadPreviousKpis
    \/ LoadTopPublishers
    \/ LoadTopCreators
    \/ LoadSectionStats
    \/ LoadSourceEfficiency
    \/ \E metric \in ScopeMetrics : LoadDailyEvolution(metric)
    \/ Refresh

SpecEditors == Init /\ [][NextEditors]_vars

(***************************************************************************)
(* Runs that follow one another within and beyond the ttl of the cache.    *)
(***************************************************************************)
CacheEvents ==
    {e \in [note_id : {1}, email_editor : {"alice@x"}, action_type : {"FIRST_PUBLISH"},
            event_timestamp : Timestamps, story_url : Urls,
            segment : {"politica"}, source : {"composer"}] :
        /\ e.story_url = Url(e.note_id)
        /\ e.event_timestamp.day = 1}
CacheMetrics == {"notas", "visits"}

NextCache ==
    \/ \E e \in CacheEvents : Ingest(e)
    \/ StoreFails("top_publishers.query")
    \/ StoreRecovers
    \/ \E day \in Days : SelectFilters(day, day, NULL, NULL, NULL)
    \/ LoadKpis
    \/ LoadPreviousKpis
    \/ LoadTopPublishers
    \/ LoadTopCreators
    \/ LoadSectionStats
    \/ LoadSourceEfficiency
    \/ \E metric \in CacheMetrics : LoadDailyEvolution(metric)
    \/ Rerun
    \/ Refresh
    \/ Elapse(TTL \div 2)

SpecCache == Init /\ [][NextCache]_vars

(***************************************************************************)
(* Runs in which the two leaderboards are asked for fewer rows than the    *)
(* table has editors.                                                      *)
(***************************************************************************)
MaxLimit == 2      \* the largest limit a leaderboard is called with
\* rows the producer may append here: first-day CREATE and FIRST_PUBLISH rows
\* of two editors on two notes
TopEvents == {e \in NewsEvents : e.event_timestamp.day = 1}

NextTop ==
    \/ \E e \in TopEvents : Ingest(e)
    \/ \E start \in Days, end \in Days, email \in NewsPersons : SelectFilters(start, end, email, NULL, NULL)
    \/ LoadKpis
    \/ LoadPreviousKpis
    \/ \E limit \in 1..MaxLimit : TopPublishersCall(limit)
    \/ \E limit \in 1..MaxLimit : TopCreatorsCall(limit)
    \/ LoadSectionStats
    \/ LoadSourceEfficiency
    \/ \E metric \in ScopeMetrics : LoadDailyEvolution(metric)
    \/ Refresh

SpecTop == Init /\ [][NextTop]_vars

(***************************************************************************)
(* Runs against a store that fails some of the queries.                    *)
(***************************************************************************)
OutageEvents ==
    {e \in [note_id : Notes, email_editor : {"alice@x"}, action_type : {"CREATE", "FIRST_PUBLISH"},
            event_timestamp : Timestamps, story_url : Urls \cup {NULL},
            segment : {"politica"}, source : {"composer"}] :
        /\ e.story_url = (IF e.action_type = "CREATE" THEN NULL ELSE Url(e.note_id))
        /\ e.event_timestamp.day = 1}

NextOutage ==
    \/ \E e \in OutageEvents : Ingest(e)
    \/ \E q \in QueryNames : StoreFails(q)
    \/ StoreRecovers
    \/ \E start \in Days, end \in Days : SelectWindow(start, end)
    \/ LoadFilterOptions
    \/ \E display \in {"Todos", "Alice"} : ChooseFilters(display, "Todas", "Todos")
    \/ LoadKpis
    \/ LoadPreviousKpis
    \/ LoadTopPublishers
    \/ LoadTopCreators
    \/ LoadSectionStats
    \/ LoadSourceEfficiency
    \/ \E metric \in ScopeMetrics : LoadDailyEvolution(metric)
    \/ Refresh

SpecOutage == Init /\ [][NextOutage]_vars

(***************************************************************************)
(* calculate_delta applied to a current and a previous KPI value.          *)
(***************************************************************************)
\* the largest KPI value tried
MaxKpi == 7
\* a KPI of the current window is always a number; the one of the previous
\* window may be 0 or missing
Currents == {Float(n) : n \in 0..MaxKpi}
Previouses == {Float(n) : n \in 0..MaxKpi} \cup {NaN, None}

InitDelta ==
    /\ log = {}
    /\ gold = GoldRows
    /\ silver = SilverRows
    /\ pc = "calculate_delta"
    /\ req \in [current : Currents, previous : Previouses]
    /\ ret = NoRet
    /\ scopes = NoScopes
    /\ down = {}
    /\ cache = NoCache

\* delta, direction = calculate_delta(current, previous)
CalculateDelta ==
    /\ pc = "calculate_delta"
    /\ ret' = [op |-> "calculate_delta", value |-> calculate_delta(req.current, req.previous)]
    /\ pc' = "done"
    /\ UNCHANGED <<log, gold, silver, req, scopes, down, cache>>

NextDelta == CalculateDelta

SpecDelta == InitDelta /\ [][NextDelta]_vars

(***************************************************************************)
(* What the properties speak about, read off the tables directly.          *)
(***************************************************************************)
InWindow(e) == Between(DateOf(e.event_timestamp), req.start, req.end)
Scoped == req.email # NULL
\* editors of the rows of one action type of a note, in the window / anywhere
EditorsInWindow(n, action) ==
    {e.email_editor : e \in {x \in log : x.note_id = n /\ x.action_type = action /\ InWindow(x)}}
EditorsAnywhere(n, action) ==
    {e.email_editor : e \in {x \in log : x.note_id = n /\ x.action_type = action}}
HasCreateAnywhere(n) == EditorsAnywhere(n, "CREATE") # {}
PublishedInWindow(n) == EditorsInWindow(n, "FIRST_PUBLISH") # {}
\* tiers (a) and (b): the person created / first-published the note in the window
TierCreate(n) == req.email \in EditorsInWindow(n, "CREATE")
TierPublish(n) == req.email \in EditorsInWindow(n, "FIRST_PUBLISH")
\* editors of the SAVE rows of a note with the least timestamp, among the
\* rows dated in the window / among all rows
EarliestSaversInWindow(n) ==
    LET saves == {x \in log : x.note_id = n /\ x.action_type = "SAVE" /\ InWindow(x)}
    IN {e.email_editor : e \in {x \in saves : \A o \in saves : TsLeq(x.event_timestamp, o.event_timestamp)}}
EarliestSaversAnywhere(n) ==
    LET saves == {x \in log : x.note_id = n /\ x.action_type = "SAVE"}
    IN {e.email_editor : e \in {x \in saves : \A o \in saves : TsLeq(x.event_timestamp, o.event_timestamp)}}
\* the creators a result attributes to a note
CreatorsOf(n) == {c.creador_email : c \in {x \in ret.creadores : x.note_id = n}}
HasCreators == Scoped /\ ret.op \in {"load_kpis", "load_top_creators"}

(***************************************************************************)
(* C1.  Every builder that runs with a person filter treats the same set   *)
(* of notes as the person's scope: the scopes the scoped queries of one    *)
(* run resolved are all equal.                                             *)
(***************************************************************************)
C1_SameScopeInEveryBuilder ==
    \A a \in DOMAIN scopes, b \in DOMAIN scopes : scopes[a] = scopes[b]

C3_CreatorsAreCreateEditorsInWindow ==
    HasCreators =>
        \A n \in NoteIds(ret.creadores) :
            EditorsInWindow(n, "CREATE") # {} => CreatorsOf(n) = EditorsInWindow(n, "CREATE")

(***************************************************************************)
(* C4.  A note without any CREATE row has as creator the editor of its     *)
(* earliest SAVE row dated in the window, and no creator when no SAVE row  *)
(* is dated in the window - where the fallback decides scope membership    *)
(* and where it names the creator of a scope note.                         *)
(***************************************************************************)
C4_FallbackCreatorIsEarliestSaveInWindow ==
    HasCreators =>
        \A n \in Notes : ~HasCreateAnywhere(n) =>
            /\ (n \in scopes["production.counts"] /\ ~TierCreate(n) /\ ~TierPublish(n))
                    => req.email \in EarliestSaversInWindow(n)
            /\ n \in NoteIds(ret.creadores) => CreatorsOf(n) \subseteq EarliestSaversInWindow(n)
            /\ (ret.op = "load_kpis" /\ n \in scopes["production.counts"] /\ EarliestSaversInWindow(n) # {})
                    => CreatorsOf(n) # {}

(***************************************************************************)
(* C5.  The SAVE fallback never acts on a note that has a CREATE row       *)
(* anywhere in the table: such a note is in a scope only when the person   *)
(* created or first-published it in the window, and its creators are       *)
(* editors of its CREATE rows only.                                        *)
(***************************************************************************)
C5_NoFallbackForNotesWithCreate ==
    /\ \A q \in DOMAIN scopes : \A n \in scopes[q] :
            HasCreateAnywhere(n) => (TierCreate(n) \/ TierPublish(n))
    /\ HasCreators => \A n \in NoteIds(ret.creadores) :
            HasCreateAnywhere(n) => CreatorsOf(n) \subseteq EditorsAnywhere(n, "CREATE")
\* the person holds the earliest SAVE row in the window of a note whose only
\* CREATE rows lie outside the window, and the note is left out of the scope
C5_Witness ==
    /\ Scoped /\ ret.op = "load_kpis"
    /\ \E n \in Notes :
        /\ HasCreateAnywhere(n) /\ EditorsInWindow(n, "CREATE") = {}
        /\ EarliestSaversInWindow(n) = {req.email}
        /\ n \notin scopes["production.counts"]

(***************************************************************************)
(* C6.  The published subset lies inside the scope, notas_publicadas       *)
(* counts only scope notes with a FIRST_PUBLISH in the window, and the     *)
(* scoped traffic is summed only over rows whose URL is that of a scope    *)
(* note with a FIRST_PUBLISH in the window.                                *)
(***************************************************************************)
\* the scope of the person by the three tiers
InScope(n) ==
    \/ TierCreate(n) \/ TierPublish(n)
    \/ (~HasCreateAnywhere(n) /\ req.email \in EarliestSaversInWindow(n))
PublishedSubset == {n \in Notes : InScope(n) /\ PublishedInWindow(n)}
\* the Gold rows of the window whose URL is that of a note of the published subset
PublishedSubsetRows ==
    {g \in gold : Between(g.date, req.start, req.end) /\ g.article_url \in {Url(n) : n \in PublishedSubset}}
C6_OnlyPublishedSubsetCounts ==
    (Scoped /\ ret.op = "load_kpis") =>
        /\ ret.production.notas_publicadas <= Cardinality(PublishedSubset)
        /\ \E rows \in SUBSET PublishedSubsetRows :
            /\ ret.traffic.visitas_totales = SumF([g \in rows |-> g.visits], rows)
            /\ ret.traffic.pageviews_totales = SumF([g \in rows |-> g.pageviews], rows)
            /\ ret.traffic.scrolls_totales = SumF([g \in rows |-> g.scrolls], rows)

(***************************************************************************)
(* C7.  With a person filter, creadores_activos and publicadores_activos   *)
(* count the distinct people who created, respectively published, the      *)
(* notes of the published subset of the scope.                             *)
(***************************************************************************)
C7_CountsOverPublishedSubset ==
    (Scoped /\ ret.op = "load_kpis") =>
        LET published == {n \in scopes["production.counts"] : PublishedInWindow(n)}
        IN /\ ret.production.creadores_activos =
                Cardinality(UNION {CreatorsOf(n) : n \in published})
           /\ ret.production.publicadores_activos =
                Cardinality(UNION {EditorsInWindow(n, "FIRST_PUBLISH") : n \in published})

(***************************************************************************)
(* C8.  Resolving the scope of a person twice for the same window and the  *)
(* same table yields the same set: the two queries of one                  *)
(* load_production_metrics call resolve equal scopes.                      *)
(***************************************************************************)
C8_ScopeResolutionIdempotent ==
    (Scoped /\ ret.op = "load_kpis") => scopes["production.counts"] = scopes["production.notas"]

(***************************************************************************)
(* C9.  Without a person filter, creadores_activos / publicadores_activos  *)
(* are the numbers of distinct editors with a CREATE / FIRST_PUBLISH row   *)
(* dated in the window and notas_publicadas the number of distinct notes   *)
(* with a FIRST_PUBLISH row dated in the window, each under the section    *)
(* and country filter; note 1 CREATEd by alice on day 1 and                *)
(* FIRST_PUBLISHed by bob on day 2 gives 1, 1, 1 over [day 1, day 2].      *)
(***************************************************************************)
\* the rows of an action type in the window that pass the two filters
Passing(action) ==
    {e \in log : /\ e.action_type = action /\ InWindow(e)
                 /\ (req.seccion # NULL => e.segment = req.seccion)
                 /\ (req.pais # NULL => \E a \in Authors :
                        Lower(a.email) = Lower(e.email_editor) /\ Lower(a.country) = Lower(req.pais))}
Editors == {"alice@x", "bob@x", "carol@x", "dave@x"}
ScenarioA ==
    {[note_id |-> 1, email_editor |-> "alice@x", action_type |-> "CREATE",
      event_timestamp |-> [day |-> 1, tick |-> 1], story_url |-> NULL,
      segment |-> "politica", source |-> "composer"],
     [note_id |-> 1, email_editor |-> "bob@x", action_type |-> "FIRST_PUBLISH",
      event_timestamp |-> [day |-> 2, tick |-> 1], story_url |-> Url(1),
      segment |-> "politica", source |-> "composer"]}
C9_UnfilteredCounts ==
    (~Scoped /\ ret.op = "load_kpis") =>
        /\ ret.production.creadores_activos =
                Cardinality({p \in Editors : \E e \in Passing("CREATE") : e.email_editor = p})
        /\ ret.production.publicadores_activos =
                Cardinality({p \in Editors : \E e \in Passing("FIRST_PUBLISH") : e.email_editor = p})
        /\ ret.production.notas_publicadas =
                Cardinality({n \in Notes : \E e \in Passing("FIRST_PUBLISH") : e.note_id = n})
        /\ (log = ScenarioA /\ req = [start |-> 1, end |-> 2, email |-> NULL, seccion |-> NULL, pais |-> NULL])
                => ret.production = [creadores_activos |-> 1, publicadores_activos |-> 1, notas_publicadas |-> 1]
\* scenario A has been aggregated
C9_Witness ==
    /\ ~Scoped /\ ret.op = "load_kpis"
    /\ log = ScenarioA
    /\ req = [start |-> 1, end |-> 2, email |-> NULL, seccion |-> NULL, pais |-> NULL]
    /\ ret.production = [creadores_activos |-> 1, publicadores_activos |-> 1, notas_publicadas |-> 1]

(***************************************************************************)
(* C10.  productividad is sessions / max(notes, 1) in the KPI set of       *)
(* load_kpis and in every row of load_section_stats: always a quotient,    *)
(* and equal to the sessions when there are no notes.                      *)
(***************************************************************************)
Guarded(n) == IF n < 1 THEN 1 ELSE n
C10_ProductivityGuarded ==
    /\ ret.op = "load_kpis" =>
            /\ ret.value.productividad = [num |-> ret.value.visitas_totales,
                                          den |-> Guarded(ret.value.notas_publicadas)]
            /\ ret.value.notas_publicadas = 0 =>
                    ret.value.productividad = [num |-> ret.traffic.visitas_totales, den |-> 1]
    /\ ret.op = "load_section_stats" =>
            \A i \in 1..Len(ret.value) :
                ret.value[i].productividad =
                    [isnull |-> FALSE, num |-> ret.value[i].sesiones, den |-> Guarded(ret.value[i].notas)]
\* no note was published in the window, yet its traffic rows have sessions
C10_Witness ==
    /\ ret.op = "load_kpis"
    /\ ret.value.notas_publicadas = 0
    /\ ret.value.visitas_totales > 0
    /\ ret.value.productividad = [num |-> ret.value.visitas_totales, den |-> 1]

(***************************************************************************)
(* C11.  For a valid window [start, end] of n = (end - start) + 1 days,    *)
(* load_previous_kpis aggregates the window [start - n, start - 1]: as     *)
(* many days as the window, ending the day before it starts, sharing no    *)
(* day with it, under the same person, section and country filters.        *)
(***************************************************************************)
\* the days of a window given by its two formatted dates
DaysOf(w) ==
    {d \in -2..2 : /\ \E i \in 1..Len(Calendar) : Calendar[i] = w.start /\ i - 3 <= d
                   /\ \E i \in 1..Len(Calendar) : Calendar[i] = w.end /\ d <= i - 3}
\* the KPI sets an aggregation of the window [first, last] under the filters of the run may give
KpisOver(first, last) ==
    LET r == [start |-> first, end |-> last, email |-> req.email, seccion |-> req.seccion, pais |-> req.pais]
    IN {load_kpis(load_production_metrics(log, r, rkp), load_traffic_metrics(log, gold, silver, r, rkt)) :
            rkp \in ProductionRankings(log, r), rkt \in TrafficRankings(log, r)}
C11_PreviousWindowAdjacentSameLength ==
    ret.op = "load_previous_kpis" =>
        LET n == (req.end - req.start) + 1
        IN /\ DaysOf(ret.window) = (req.start - n)..(req.start - 1)
           /\ Cardinality(DaysOf(ret.window)) = Cardinality(req.start..req.end)
           /\ DaysOf(ret.window) \cap (req.start..req.end) = {}
           /\ (req.start - 1) \in DaysOf(ret.window)
           /\ ret.filters = [email |-> req.email, seccion |-> req.seccion, pais |-> req.pais]
           /\ ret.value \in KpisOver(req.start - n, req.start - 1)
\* the window is the second day alone; the day before it holds a published
\* note with traffic
C11_Witness ==
    /\ ret.op = "load_previous_kpis"
    /\ req.start = 2 /\ req.end = 2
    /\ ret.window = [start |-> "2024-03-01", end |-> "2024-03-01"]
    /\ ret.value.notas_publicadas = 1
    /\ ret.value.visitas_totales > 0

ContainsComposer(source) == source \in {"ComposerCMS", "composer-scribnews"}
ContainsScribnews(source) == source \in {"scribnews-auto", "composer-scribnews"}
IsAgency(email) == email \in {"infobae", "Infobae", "INFOBAE"}
\* the FIRST_PUBLISH rows of the window a roll-up of the run is about: all of
\* them, or with a person filter those of the person's published scope notes
PublishedRows ==
    {e \in log : /\ e.action_type = "FIRST_PUBLISH" /\ InWindow(e)
                 /\ (req.seccion # NULL => e.segment = req.seccion)
                 /\ Scoped => e.note_id \in PublishedSubset}
NotesOf(rows) == {e.note_id : e \in rows}

(***************************************************************************)
(* C13.  In every row of load_section_stats, with or without a person      *)
(* filter, composer counts the published notes whose source contains       *)
(* "composer" in any letter case, scribnews those whose source contains    *)
(* "scribnews", and a note with a null source is in neither count but is   *)
(* in notas.                                                               *)
(***************************************************************************)
C13_SectionSourceCounts ==
    ret.op = "load_section_stats" =>
        \A i \in 1..Len(ret.value) :
            LET rows == {e \in PublishedRows : e.segment = ret.value[i].seccion}
            IN /\ ret.value[i].notas = Cardinality(NotesOf(rows))
               /\ ret.value[i].composer = Cardinality(NotesOf({e \in rows : ContainsComposer(e.source)}))
               /\ ret.value[i].scribnews = Cardinality(NotesOf({e \in rows : ContainsScribnews(e.source)}))
\* one note from "ComposerCMS", the other without a source
C13_Witness ==
    /\ ret.op = "load_section_stats"
    /\ {e.source : e \in PublishedRows} = {"ComposerCMS", NULL}
    /\ Len(ret.value) = 1
    /\ ret.value[1].notas = 2 /\ ret.value[1].composer = 1 /\ ret.value[1].scribnews = 0

(***************************************************************************)
(* C14.  A note whose source contains both "composer" and "scribnews" is   *)
(* bucketed by the first true predicate in the order composer, scribnews,  *)
(* other: it counts as composer only, in the section roll-up and in the    *)
(* source-efficiency roll-up, and never in two buckets.                    *)
(***************************************************************************)
C14_ComposerBeforeScribnews ==
    /\ ret.op = "load_section_stats" =>
        \A i \in 1..Len(ret.value) :
            LET rows == {e \in PublishedRows : e.segment = ret.value[i].seccion}
            IN /\ ret.value[i].composer = Cardinality(NotesOf({e \in rows : ContainsComposer(e.source)}))
               /\ ret.value[i].scribnews =
                    Cardinality(NotesOf({e \in rows : ContainsScribnews(e.source) /\ ~ContainsComposer(e.source)}))
    /\ ret.op = "load_source_efficiency" =>
        LET rows == {e \in PublishedRows : ~IsAgency(e.email_editor)}
            notas(fuente) == IF \E i \in 1..Len(ret.value) : ret.value[i].fuente = fuente
                             THEN (CHOOSE row \in {ret.value[i] : i \in 1..Len(ret.value)} : row.fuente = fuente).notas
                             ELSE 0
        IN /\ notas("Composer") = Cardinality(NotesOf({e \in rows : ContainsComposer(e.source)}))
           /\ notas("Scribnews") =
                Cardinality(NotesOf({e \in rows : ContainsScribnews(e.source) /\ ~ContainsComposer(e.source)}))

(***************************************************************************)
(* C15.  load_source_efficiency puts a published note in the agency bucket *)
(* whenever its FIRST_PUBLISH editor is the agency identity in any letter  *)
(* case, whatever its source; otherwise in Composer or Scribnews by        *)
(* substring match on the source; a note matching none of these is in no   *)
(* returned row, and every returned row is Agencias, Composer or           *)
(* Scribnews.                                                              *)
(***************************************************************************)
C15_AgencyFirstOthersExcluded ==
    ret.op = "load_source_efficiency" =>
        LET table == {ret.value[i] : i \in 1..Len(ret.value)}
            agency == {e \in PublishedRows : IsAgency(e.email_editor)}
            others == PublishedRows \ agency
            count(fuente) == IF \E row \in table : row.fuente = fuente
                             THEN (CHOOSE row \in table : row.fuente = fuente).notas
                             ELSE 0
        IN /\ \A row \in table : row.fuente \in {"Agencias", "Composer", "Scribnews"} /\ row.notas > 0
           /\ Cardinality(table) = Len(ret.value)
           /\ count("Agencias") = Cardinality(NotesOf(agency))
           /\ count("Composer") <= Cardinality(NotesOf({e \in others : ContainsComposer(e.source)}))
           /\ count("Composer") >=
                Cardinality(NotesOf({e \in others : ContainsComposer(e.source) /\ ~ContainsScribnews(e.source)}))
           /\ count("Scribnews") <= Cardinality(NotesOf({e \in others : ContainsScribnews(e.source)}))
           /\ count("Scribnews") >=
                Cardinality(NotesOf({e \in others : ContainsScribnews(e.source) /\ ~ContainsComposer(e.source)}))
\* the agency identity published one note from "ComposerCMS", a person
\* published another from a source that matches nothing
C15_Witness ==
    /\ ret.op = "load_source_efficiency"
    /\ \E e \in PublishedRows : e.email_editor = "Infobae" /\ e.source = "ComposerCMS"
    /\ \E e \in PublishedRows : e.email_editor = "alice@x" /\ e.source = "wire"
    /\ Len(ret.value) = 1
    /\ ret.value[1].fuente = "Agencias" /\ ret.value[1].notas = 1

(***************************************************************************)
(* C16.  Without a person filter, the count a leaderboard row reports for  *)
(* an editor is the number of distinct notes for which the editor has a    *)
(* CREATE (load_top_creators) / FIRST_PUBLISH (load_top_publishers) row    *)
(* dated in the window: several rows of the editor on one note count once. *)
(***************************************************************************)
\* the editor a leaderboard row names
EditorNamed(name) ==
    CASE name = "Alice" -> "alice@x"
      [] name = "Bob" -> "bob@x"
      [] name = "Carol" -> "carol@x"
      [] OTHER -> name
DistinctNotesOf(name, action) ==
    Cardinality({e.note_id : e \in {x \in Passing(action) : x.email_editor = EditorNamed(name)}})
C16_LeaderboardCountsDistinctNotes ==
    /\ (~Scoped /\ ret.op = "load_top_creators") =>
            \A i \in 1..Len(ret.value) :
                ret.value[i].notas_creadas = DistinctNotesOf(ret.value[i].Creador, "CREATE")
    /\ (~Scoped /\ ret.op = "load_top_publishers") =>
            \A i \in 1..Len(ret.value) :
                ret.value[i].notas_publicadas = DistinctNotesOf(ret.value[i].Publicador, "FIRST_PUBLISH")

(***************************************************************************)
(* C17.  With a person filter, the creator and the publisher leaderboard   *)
(* count for each person only notes of the published subset of the scope:  *)
(* a scope note without a FIRST_PUBLISH row dated in the window adds to    *)
(* nobody's count.                                                         *)
(***************************************************************************)
C17_LeaderboardsOverPublishedSubset ==
    /\ (Scoped /\ ret.op = "load_top_creators") =>
            \A i \in 1..Len(ret.value) :
                ret.value[i].notas_creadas =
                    Cardinality({n \in scopes["top_creators"] :
                        PublishedInWindow(n) /\ EditorNamed(ret.value[i].Creador) \in CreatorsOf(n)})
    /\ (Scoped /\ ret.op = "load_top_publishers") =>
            \A i \in 1..Len(ret.value) :
                ret.value[i].notas_publicadas =
                    Cardinality({n \in scopes["top_publishers"] :
                        PublishedInWindow(n)
                        /\ EditorNamed(ret.value[i].Publicador) \in EditorsInWindow(n, "FIRST_PUBLISH")})

(***************************************************************************)
(* C18.  A row whose editor email is null or empty takes part in no        *)
(* attribution: it never adds to creadores_activos or publicadores_activos *)
(* (with or without a person filter), never gives a leaderboard row and    *)
(* never gives a selectable person in load_filter_options.                 *)
(***************************************************************************)
Attributable(emails) == emails \ {NULL, ""}
C18_NoAttributionWithoutEditor ==
    /\ (~Scoped /\ ret.op = "load_kpis") =>
            /\ ret.production.creadores_activos =
                    Cardinality(Attributable({e.email_editor : e \in Passing("CREATE")}))
            /\ ret.production.publicadores_activos =
                    Cardinality(Attributable({e.email_editor : e \in Passing("FIRST_PUBLISH")}))
    /\ (Scoped /\ ret.op = "load_kpis") =>
            /\ ret.production.creadores_activos =
                    Cardinality(Attributable({c.creador_email : c \in ret.creadores}))
            /\ ret.production.publicadores_activos =
                    Cardinality(Attributable(UNION {EditorsInWindow(n, "FIRST_PUBLISH") :
                                                        n \in scopes["production.counts"]}))
    /\ ret.op = "load_top_creators" =>
            \A i \in 1..Len(ret.value) : ret.value[i].Creador \notin {NULL, ""}
    /\ ret.op = "load_top_publishers" =>
            \A i \in 1..Len(ret.value) : ret.value[i].Publicador \notin {NULL, ""}
    /\ ret.op = "load_filter_options" =>
            \A d \in DOMAIN ret.value.email_options :
                d \notin {NULL, ""} /\ ret.value.email_options[d] \notin {NULL, ""}

(***************************************************************************)
(* What a call returns when the store answers its queries, read off the    *)
(* tables without the try blocks.                                          *)
(***************************************************************************)
\* the request of the latest call: load_previous_kpis asks for the window before
Asked ==
    IF ret.op = "load_previous_kpis"
    THEN previous_request(Strftime(req.start), Strftime(req.end), req)
    ELSE req
\* the query that feeds a field of the dict load_kpis returns
FieldQuery(field, r) ==
    CASE field = "creadores_activos" ->
            IF r.email # NULL THEN "production.query_counts" ELSE "production.query_creadores"
      [] field = "publicadores_activos" ->
            IF r.email # NULL THEN "production.query_counts" ELSE "production.query_publicadores"
      [] field = "notas_publicadas" -> "production.query_notas"
      [] field = "usuarios_unicos" -> "traffic.query_users"
      [] OTHER -> "traffic.query"
\* the kpi fields one numbering of the scope gives with every query answered
AnsweredKpis(r, rkp, rkt) ==
    LET rows == traffic_rows(log, gold, r, rkt.traffic)
        pairs == users_rows(log, gold, silver, r, rkt.users)
    IN [creadores_activos |-> IF r.email # NULL
                              THEN Cardinality(creadores_notas(log, r, rkp.counts, rkp.all))
                              ELSE query_creadores(log, r),
        publicadores_activos |-> IF r.email # NULL
                                 THEN Cardinality(publicadores_notas(log, r, rkp.counts))
                                 ELSE query_publicadores(log, r),
        notas_publicadas |-> IF r.email # NULL
                             THEN Cardinality(prod_notas_counted(log, r, rkp.notas))
                             ELSE query_notas(log, r),
        visitas_totales |-> IntOrZero(SqlSum([g \in rows |-> g.visits], rows)),
        pageviews_totales |-> IntOrZero(SqlSum([g \in rows |-> g.pageviews], rows)),
        scrolls_totales |-> IntOrZero(SqlSum([g \in rows |-> g.scrolls], rows)),
        usuarios_unicos |-> IntOrZero(SqlSum([q \in pairs |-> q[1].daily_users], pairs))]
\* every counted field is the answer of its query, or 0 when that query failed
KpisAnsweredOrZero(value, r) ==
    \E rkp \in ProductionRankings(log, r), rkt \in TrafficRankings(log, r) :
        \A field \in DOMAIN AnsweredKpis(r, rkp, rkt) :
            value[field] = IF FieldQuery(field, r) \in down THEN 0 ELSE AnsweredKpis(r, rkp, rkt)[field]
\* the tables a table builder may return with its query answered
AnsweredTables(op) ==
    CASE op = "load_top_publishers" ->
            UNION {{Limit(f, TopLimit) : f \in OrderByDesc(top_publishers_groups(log, req, rk), "notas_publicadas")} :
                        rk \in ScopeRankings(log, req, FALSE)}
      [] op = "load_top_creators" ->
            UNION {{Limit(f, TopLimit) : f \in OrderByDesc(top_creators_groups(log, req, rk[1], rk[2]), "notas_creadas")} :
                        rk \in ScopeRankings(log, req, FALSE) \X AllRankings(log, req)}
      [] op = "load_section_stats" ->
            UNION {OrderByDesc({section_row(log, gold, silver, req, rk, sec) :
                                    sec \in {e.segment : e \in section_editorial_rows(log, req, rk)}}, "notas") :
                        rk \in ScopeRankings(log, req, FALSE)}
      [] op = "load_source_efficiency" ->
            UNION {OrderByDesc({source_row(log, gold, silver, req, rk, f) :
                                    f \in {Fuente(e) : e \in notas_por_fuente(log, req, rk)} \ {"Otros"}}, "sesiones") :
                        rk \in ScopeRankings(log, req, FALSE)}
      [] op = "load_daily_evolution" ->
            {daily_series(log, gold, silver, req, ret.metric, rk) :
                        rk \in ScopeRankings(log, req, ret.metric # "notas")}
TableBuilders == {"load_top_publishers", "load_top_creators", "load_section_stats",
                  "load_source_efficiency", "load_daily_evolution"}
\* the queries of the latest call the store failed
FailedQueries == Queries(ret.op, Asked) \cap down

(***************************************************************************)
(* C19.  A failure of the store in one query never leaves the call that    *)
(* ran it and never ends the script run: the field or table the failed     *)
(* query feeds is its zero / empty default, and every field or table whose *)
(* query the store answered is that answer, whatever else failed.          *)
(***************************************************************************)
C19_FailureStaysInsideItsQuery ==
    /\ pc # "aborted"
    /\ ret.op # "none" => "raised" \notin DOMAIN ret
    /\ ret.op \in {"load_kpis", "load_previous_kpis"} =>
            /\ KpisAnsweredOrZero(ret.value, Asked)
            /\ ret.value.productividad = productividad(ret.value.visitas_totales, ret.value.notas_publicadas)
    /\ ret.op \in TableBuilders =>
            IF FailedQueries # {} THEN ret.value = <<>> ELSE ret.value \in AnsweredTables(ret.op)
    /\ ret.op = "load_filter_options" =>
            /\ IF "filter_options.query_emails" \in down
               THEN DOMAIN ret.value.email_options = {}
               ELSE ret.value.email_options \in email_options(query_emails(log, req.start, req.end))
            /\ ret.value.secciones = IF "filter_options.query_secciones" \in down
                                     THEN <<>> ELSE Sorted(query_secciones(log, req.start, req.end))
            /\ ret.value.paises = IF "filter_options.query_paises" \in down
                                  THEN <<>> ELSE Sorted(query_paises(log, req.start, req.end))

\* the publisher leaderboard failed and is empty, the creator leaderboard
\* that ran after it lists its rows
C19_Witness ==
    /\ down = {"top_publishers.query"}
    /\ ret.op = "load_top_creators"
    /\ ret.value # <<>>

(***************************************************************************)
(* C20.  Every failure of the store inside a load_* call is shown to the   *)
(* user: the call issues one warning for each of its queries that failed.  *)
(***************************************************************************)
C20_EveryFailureWarned ==
    (ret.op # "none" /\ "raised" \notin DOMAIN ret) =>
        Cardinality(ret.errors) >= Cardinality(FailedQueries)

(***************************************************************************)
(* C21.  A request whose window has start > end is rejected with a         *)
(* user-input error before any aggregation: no load_* call ever runs or    *)
(* has run for such a request, the run is over, and the only step left is  *)
(* the next interaction, which starts from a fresh request.                *)
(***************************************************************************)
C21_InvalidWindowRejected ==
    req.start > req.end =>
        /\ pc = "done"
        /\ ret = [op |-> "main", errors |-> {"La fecha inicial debe ser anterior a la final"}]
        /\ DOMAIN scopes = {}

C21_Witness ==
    /\ req.start = 2 /\ req.end = 1
    /\ ret.op = "main"
    /\ log # {}

(***************************************************************************)
(* What the cache properties speak about: the memoized call a step makes.  *)
(***************************************************************************)
LoaderPcs == {"load_filter_options", "load_kpis", "load_previous_kpis", "load_top_publishers",
              "load_top_creators", "load_section_stats", "load_source_efficiency", "load_daily_evolution"}
\* the step is the call of the load_* function main() has reached
Calls == pc \in LoaderPcs /\ pc' # pc
\* the key of that call: the function and all its hashed arguments
CalledKey ==
    Key(pc, req, CASE pc \in {"load_top_publishers", "load_top_creators"} -> [limit |-> ret'.limit, metric |-> NULL]
                   [] pc = "load_daily_evolution" -> [limit |-> 0, metric |-> ret'.metric]
                   [] OTHER -> NoExtra)
\* the entries of earlier calls of the same function with the same window,
\* person, section and country, stored less than the ttl ago
SameSixStored ==
    {k \in DOMAIN cache :
        /\ k.op = pc
        /\ k.start_date = Strftime(req.start) /\ k.end_date = Strftime(req.end)
        /\ k.email_filter = req.email /\ k.seccion_filter = req.seccion /\ k.pais_filter = req.pais
        /\ cache[k].age < TTL}

C23_RefreshInvalidatesAll ==
    [][/\ ret'.op = "st.cache_data.clear" => cache' = NoCache
       /\ DOMAIN cache \ DOMAIN cache' # {} => cache' = NoCache
       /\ (Calls /\ cache = NoCache) => (~ret'.hit /\ ret'.queried # {} /\ CalledKey \in DOMAIN cache')]_vars

\* the refresh has just run over a store that holds a published note and a
\* failing query, and nothing is left in the cache
C23_Witness ==
    /\ ret.op = "st.cache_data.clear"
    /\ pc = "idle"
    /\ cache = NoCache
    /\ log # {}
    /\ down # {}

(***************************************************************************)
(* C27.  The default a function returns when its query fails is memoized   *)
(* like any other result: the call leaves it under its key, and a call     *)
(* with the same key less than the ttl later, with no refresh in between,  *)
(* returns it without querying the store, whether or not the store has     *)
(* recovered by then.                                                      *)
(***************************************************************************)
C27_DefaultMemoized ==
    [][Calls =>
        /\ (~Fresh(CalledKey) /\ Queries(pc, req) \cap down # {})
                => /\ ret'.queried \cap down # {}
                   /\ CalledKey \in DOMAIN cache'
                   /\ cache'[CalledKey].value = ret'.value
                   /\ cache'[CalledKey].age = 0
        /\ (Fresh(CalledKey) /\ cache[CalledKey].shown # {})
                => /\ ret'.value = cache[CalledKey].value
                   /\ ret'.queried = {}
                   /\ cache' = cache]_vars

\* the leaderboard of publishers answered from the cache is the empty table
\* of a call whose query failed, although the store answers again and the
\* window holds a published note
C27_Witness ==
    /\ ret.op = "load_top_publishers"
    /\ ret.hit
    /\ ret.value = EmptyDataFrame
    /\ ret.errors = {"Error cargando top publicadores"}
    /\ down = {}
    /\ req.start = 1
    /\ \E e \in log : e.event_timestamp.day = 1

\* the dates of a series, in the order returned
Fechas(series) == [i \in 1..Len(series) |-> series[i].fecha]

(***************************************************************************)
(* C24.  load_daily_evolution returns one point for each day of the window *)
(* on which at least one row contributes to the metric and no point for    *)
(* any other day; the points come in strictly ascending date order, so no  *)
(* date appears twice.  This holds for the count of notes, the users and   *)
(* the visits, with and without a person filter.                           *)
(***************************************************************************)
C24_OnePointPerDayWithData ==
    (ret.op = "load_daily_evolution" /\ pc = "done") =>
        LET fechas == Fechas(ret.value)
        IN /\ \A i, j \in 1..Len(fechas) : i < j => fechas[i] < fechas[j]
           /\ \A i \in 1..Len(fechas) : Between(fechas[i], req.start, req.end)
           /\ \E rk \in ScopeRankings(log, req, ret.metric # "notas") :
                {fechas[i] : i \in 1..Len(fechas)}
                    = {q[1] : q \in daily_rows(log, gold, silver, req, ret.metric, rk)}

\* one person's notes over a window of two days: the only point is the
\* second day, on which the note was published
C24_Witness ==
    /\ ret.op = "load_daily_evolution"
    /\ ret.metric = "notas"
    /\ req.email = "alice@x"
    /\ req.start = 1 /\ req.end = 2
    /\ ret.value = <<[fecha |-> 2, valor |-> 1]>>

(***************************************************************************)
(* render_temporal_zone: the trend of the daily series                     *)
(***************************************************************************)
MaxPoints == 3     \* days a daily series may span
MaxValor == 2      \* the largest value of a point
\* px.scatter(daily_data, x='fecha', y='valor', trendline='ols'): the slope
\* params[1] of the ordinary least squares fit valor ~ const + fecha, as the
\* quotient the normal equations give
ols_slope(daily_data) ==
    LET n == Len(daily_data)
        I == 1..n
        sx == SumF([i \in I |-> daily_data[i].fecha], I)
        sy == SumF([i \in I |-> daily_data[i].valor], I)
        sxy == SumF([i \in I |-> daily_data[i].fecha * daily_data[i].valor], I)
        sxx == SumF([i \in I |-> daily_data[i].fecha * daily_data[i].fecha], I)
    IN [num |-> n * sxy - sx * sy, den |-> n * sxx - sx * sx]
\* what the zone shows below the selectbox when the slope 0 counts as rising
render_temporal_zone_nonnegative(daily_data) ==
    IF Len(daily_data) < 2
    THEN [warning |-> "No hay suficientes datos temporales", trend_text |-> NULL]
    ELSE [warning |-> NULL,
          trend_text |-> IF ols_slope(daily_data).num >= 0 THEN "Tendencia al ALZA" ELSE "Tendencia a la BAJA"]
\* what the zone shows below the selectbox: st.warning(...) and return when
\* daily_data.empty or len(daily_data) < 2, else the chart and the text for
\* slope > 0 or for any other slope
render_temporal_zone(daily_data) ==
    IF Len(daily_data) < 2
    THEN [warning |-> "No hay suficientes datos temporales", trend_text |-> NULL]
    ELSE LET slope == ols_slope(daily_data)
         IN [warning |-> NULL,
             trend_text |-> IF (slope.num > 0 /\ slope.den > 0) \/ (slope.num < 0 /\ slope.den < 0)
                            THEN "Tendencia al ALZA" ELSE "Tendencia a la BAJA"]

\* the series load_daily_evolution may hand over: one point per day of a set
\* of days, in ascending order of the date
TrendDays == 1..MaxPoints
DailySeries ==
    UNION {{f \in OrderByAsc({[fecha |-> d, valor |-> v[d]] : d \in ds}, "fecha") : TRUE} :
                v \in [TrendDays -> 0..MaxValor], ds \in SUBSET TrendDays}

InitTrend ==
    /\ log = {}
    /\ gold = GoldRows
    /\ silver = SilverRows
    /\ pc = "render_temporal_zone"
    /\ req \in [daily_data : DailySeries]
    /\ ret = NoRet
    /\ scopes = NoScopes
    /\ down = {}
    /\ cache = NoCache

\* the part of render_temporal_zone that follows the call of load_daily_evolution
RenderTemporalZone ==
    /\ pc = "render_temporal_zone"
    /\ ret' = [op |-> "render_temporal_zone", value |-> render_temporal_zone(req.daily_data)]
    /\ pc' = "done"
    /\ UNCHANGED <<log, gold, silver, req, scopes, down, cache>>

NextTrend == RenderTemporalZone

SpecTrend == InitTrend /\ [][NextTrend]_vars

\* the sum over the pairs of points of (difference of dates) times
\* (difference of values): its sign is the sign of the least-squares slope
PairwiseCovariance(series) ==
    LET P == {q \in (1..Len(series)) \X (1..Len(series)) : q[1] < q[2]}
    IN SumF([q \in P |-> (series[q[2]].fecha - series[q[1]].fecha) * (series[q[2]].valor - series[q[1]].valor)], P)

(***************************************************************************)
(* C25.  A daily series of two or more points is called rising exactly     *)
(* when its least-squares slope of value on date is greater than 0 and     *)
(* falling otherwise, a slope of 0 included; for a series of fewer than    *)
(* two points no direction is shown and a warning says that the data does  *)
(* not suffice.                                                            *)
(***************************************************************************)
C25_TrendBySlopeSign ==
    ret.op = "render_temporal_zone" =>
        IF Len(req.daily_data) < 2
        THEN ret.value.trend_text = NULL /\ ret.value.warning # NULL
        ELSE /\ ret.value.warning = NULL
             /\ ret.value.trend_text = (IF PairwiseCovariance(req.daily_data) > 0
                                        THEN "Tendencia al ALZA" ELSE "Tendencia a la BAJA")

\* a series of three equal values has slope 0 and is called falling
C25_Witness ==
    /\ ret.op = "render_temporal_zone"
    /\ req.daily_data = <<[fecha |-> 1, valor |-> 2], [fecha |-> 2, valor |-> 2], [fecha |-> 3, valor |-> 2]>>
    /\ ret.value.trend_text = "Tendencia a la BAJA"

\* a leaderboard is in non-increasing order of its count, holds at most limit
\* rows, all of them groups of the query, and leaves out only groups whose
\* count does not exceed the count of any row it holds
TopOf(table, groups, by, limit) ==
    /\ Len(table) = Min(limit, Cardinality(groups))
    /\ \A i, j \in 1..Len(table) : i < j => table[i][by] >= table[j][by]
    /\ \A i \in 1..Len(table) : table[i] \in groups
    /\ \A g \in groups \ {table[i] : i \in 1..Len(table)} :
            \A i \in 1..Len(table) : g[by] <= table[i][by]

(***************************************************************************)
(* C26.  The tables load_top_publishers and load_top_creators return are   *)
(* sorted by the count of notes in non-increasing order and hold at most   *)
(* limit rows, and no row left out has a greater count than a row          *)
(* returned.                                                               *)
(***************************************************************************)
C26_LeaderboardTopLimit ==
    /\ ret.op = "load_top_publishers" =>
            /\ Len(ret.value) <= ret.limit
            /\ \E rk \in ScopeRankings(log, req, FALSE) :
                    TopOf(ret.value, top_publishers_groups(log, req, rk), "notas_publicadas", ret.limit)
    /\ ret.op = "load_top_creators" =>
            /\ Len(ret.value) <= ret.limit
            /\ \E rk \in ScopeRankings(log, req, FALSE), rk_all \in AllRankings(log, req) :
                    TopOf(ret.value, top_creators_groups(log, req, rk, rk_all), "notas_creadas", ret.limit)

\* two editors published notes in the window, one of them two notes; with
\* limit 1 the table holds the row of that editor only
C26_Witness ==
    /\ ret.op = "load_top_publishers"
    /\ ret.limit = 1
    /\ req.email = NULL
    /\ Len(ret.value) = 1
    /\ ret.value[1].notas_publicadas = 2
    /\ Cardinality(top_publishers_groups(log, req, NoRk)) = 2

(***************************************************************************)
(* C28.  For one window and one section and country filter, the            *)
(* notas_publicadas load_production_metrics returns with a person filter   *)
(* is never greater than the one it returns without a person filter.       *)
(***************************************************************************)
C28_PersonCountWithinNewsroomCount ==
    (ret.op = "load_kpis" /\ req.email # NULL) =>
        ret.production.notas_publicadas <= query_notas(log, [req EXCEPT !.email = NULL])

\* what load_traffic_metrics returned in the run for the arguments of the
\* latest call, kept by the cache
TrafficOfRun == cache[Key("load_traffic_metrics", req, NoExtra)].value

(***************************************************************************)
(* C29.  With every query answered, the values of the points of            *)
(* load_daily_evolution(metric='visits') add up to the visitas_totales     *)
(* load_traffic_metrics returns for the same window and the same person,   *)
(* section and country filters.                                            *)
(***************************************************************************)
C29_DailyVisitsAddUpToTotal ==
    (ret.op = "load_daily_evolution" /\ ret.metric = "visits" /\ pc = "done" /\ down = {}) =>
        SumF([i \in 1..Len(ret.value) |-> ret.value[i].valor], 1..Len(ret.value))
            = TrafficOfRun.visitas_totales

\* the request of the run with other section and country filters
OtherFilters == {[req EXCEPT !.seccion = seccion, !.pais = pais] : seccion \in NewsSecciones, pais \in NewsPaises}

(***************************************************************************)
(* C30.  With a person filter the section and the country filter have no   *)
(* effect on the two leaderboards and on creadores_activos and             *)
(* publicadores_activos: whatever a call returns, the call with the same   *)
(* window and person and any other section and country filter may return   *)
(* as well.                                                                *)
(***************************************************************************)
C30_PersonViewIgnoresSectionAndCountry ==
    /\ (Scoped /\ ret.op = "load_top_publishers") =>
            \A r \in OtherFilters : \E rk \in ScopeRankings(log, r, FALSE) :
                ret.value \in load_top_publishers(log, r, ret.limit, rk)
    /\ (Scoped /\ ret.op = "load_top_creators") =>
            \A r \in OtherFilters : \E rk \in ScopeRankings(log, r, FALSE), rk_all \in AllRankings(log, r) :
                ret.value \in load_top_creators(log, r, ret.limit, rk, rk_all)
    /\ (Scoped /\ ret.op = "load_kpis") =>
            \A r \in OtherFilters : \E rk \in ProductionRankings(log, r) :
                /\ load_production_metrics(log, r, rk).creadores_activos = ret.production.creadores_activos
                /\ load_production_metrics(log, r, rk).publicadores_activos = ret.production.publicadores_activos

\* the person's view filtered by the section politica and the country MX
\* lists the publisher of a note of the section deportes, an editor of AR
C30_Witness ==
    /\ ret.op = "load_top_publishers"
    /\ req.email = "alice@x" /\ req.seccion = "politica" /\ req.pais = "MX"
    /\ \A e \in log : e.segment = "deportes" /\ e.email_editor = "alice@x"
    /\ Len(ret.value) = 1
    /\ ret.value[1].Publicador = "Alice"

====
